---------------------------- MODULE Spec2Model ----------------------------
(***************************************************************************)
(* A model of the containers of rickythai/data-structures.                 *)
(*                                                                         *)
(* SkipListSet (src/skiplist/SkipListSet.hpp) is modelled on an explicit   *)
(* heap: Node and LNode objects live at addresses, nullptr is NULL, and    *)
(* every member function is one action that runs the whole function body.  *)
(***************************************************************************)
EXTENDS Integers, Sequences, FiniteSets, TLC

\* ------------------------------------------------------------------ bounds
\* Elements are the integers 1..MaxElem.
MaxElem == 3
\* The promotion policy answers true at most MaxPromote times in one add.
MaxPromote == 2
\* Where two sets copy and move into each other (Spec), at most MaxOps member
\* functions are called.
MaxOps == 4
\* Where allocations fail (SpecAddFail), at most MaxFailOps member functions
\* are called.
MaxFailOps == 3
\* Where allocations of a copy fail (SpecCopyFail), at most MaxCopyFailOps
\* member functions are called.
MaxCopyFailOps == 4
\* Where the const member functions are called (SpecConst), at most
\* MaxConstOps member functions are called.
MaxConstOps == 3
\* Where the level tester is a fixed one (SpecNeverPromote, SpecPromoteOnce),
\* at most MaxTesterAdds elements are added.
MaxTesterAdds == 5
\* Vertices of the Digraph are numbered 1..MaxVertex.
MaxVertex == 3
\* An EdgeInfo is an integer 1..MaxEdgeInfo.
MaxEdgeInfo == 1
\* At most MaxGraphOps member functions of the Digraph are called.
MaxGraphOps == 5
\* Where shortest paths are asked for (SpecPaths), at most MaxPathOps member
\* functions of the Digraph are called.
MaxPathOps == 5
\* The values put into the DoublyLinkedList are 1..MaxValue, and at most
\* MaxListOps member functions of the list and of its iterator are called.
MaxValue == 2
MaxListOps == 7
\* The elements put into the HashSet are 1..MaxHashElem.
MaxHashElem == 9
MaxIndex == 40

Elems == 1..MaxElem

\* The elements added where the level tester is a fixed one.
TesterElems == {1, 2, 3, 5, 8, 9}

\* The levels asked about: every level add can build, and one above.
Levels == 0..(MaxPromote + 1)

\* ------------------------------------------------------------ skip list
\* nullptr
NULL == 0

\* The two SkipListSet objects of the program.
Sets == {1, 2}

VARIABLES
    nodes,      \* heap of Node objects:  address -> [value, below, next]
    lnodes,     \* heap of LNode objects: address -> [value, below, next]
    head,       \* head[s]: the LNode* head member of set s
    tail,       \* tail[s]: the Node* tail member of set s
    elements,   \* elements[s]: the int elements member of set s
    live,       \* live[s]: set s has been constructed
    status,     \* "run", or "fault" once a null pointer has been dereferenced
    last,       \* the last member function called, its arguments and outcome
    added,      \* history: added[s] is the set of elements put into set s
    ops,        \* history: the number of member functions called, where a
                \* specification bounds it
    map,        \* the map member of the Digraph object: vertex number ->
                \* [vinfo, edges], edges being the list of outgoing edges
    dnodes,     \* heap of the Node objects of DoublyLinkedLists:
                \* address -> [value, prev, next]
    dll,        \* the DoublyLinkedList object: its head and tail members
    it,         \* the Iterator object: its current, pastStart, pastEnd and
                \* clist members (ilist is the DoublyLinkedList object)
    hashset,    \* the HashSet object: its hashFunction, stored, capacity
                \* and set members
    hadded      \* history: the set of elements put into the HashSet

vars == <<nodes, lnodes, head, tail, elements, live, status, last, added, ops,
          map, dnodes, dll, it, hashset, hadded>>

\* The memory of the program as one value, so that a function body can be
\* written as a composition of steps.
Mem == [nodes |-> nodes, lnodes |-> lnodes, head |-> head, tail |-> tail,
        elements |-> elements]

\* ---- SkipListKey
SkipListKey(kind, element) == [kind |-> kind, element |-> element]

KeyEq(a, b) ==
    a.kind = b.kind /\ (a.kind # "Normal" \/ a.element = b.element)

\* An operator< that orders two Normal keys by <= on their elements.
KeyLessOrEqual(a, b) ==
    CASE a.kind = "NegInf" -> b.kind # "NegInf"
      [] a.kind = "PosInf" -> FALSE
      [] OTHER -> b.kind = "PosInf"
                  \/ (b.kind = "Normal" /\ a.element <= b.element)

KeyLess(a, b) ==
    CASE a.kind = "NegInf" -> b.kind # "NegInf"
      [] a.kind = "PosInf" -> FALSE
      [] OTHER -> b.kind = "PosInf"
                  \/ (b.kind = "Normal" /\ a.element < b.element)

\* ---- allocation: operator new hands out the lowest free address
NewAddr(heap) ==
    CHOOSE a \in 1..(Cardinality(DOMAIN heap) + 1) :
        a \notin DOMAIN heap /\ \A b \in 1..(a - 1) : b \in DOMAIN heap

Node(v, b, n) == [value |-> v, below |-> b, next |-> n]
LNode(v, b, n) == [value |-> v, below |-> b, next |-> n]

\* F(v), the value v being worked out once however often F uses it.
Let(v, F(_)) == CHOOSE x \in {F(y) : y \in {v}} : TRUE


\* ---- walking a chain of Node objects along next
RECURSIVE ChainFrom(_, _)
ChainFrom(N, p) == IF p = NULL THEN <<>> ELSE <<p>> \o ChainFrom(N, N[p].next)

\* ---- getLevel (the loop runs zero times when head is nullptr)
RECURSIVE getLevelFrom(_, _, _)
getLevelFrom(L, p, level) ==
    IF p = NULL THEN NULL
    ELSE IF L[p].value = level THEN p
    ELSE getLevelFrom(L, L[p].below, level)

getLevel(M, s, level) == getLevelFrom(M.lnodes, M.head[s], level)

\* A search that goes down, or stops, already when the next key equals the
\* one looked for (<= where the code has <), and so never steps onto it.
RECURSIVE searchLoopStopsAtEqual(_, _, _, _, _)
searchLoopStopsAtEqual(N, p, level, newKey, minLevel) ==
    IF p = NULL THEN NULL
    ELSE IF KeyEq(N[p].value, newKey) THEN NULL
    ELSE IF N[p].next # NULL /\ ~KeyLess(N[N[p].next].value, newKey)
         THEN IF level - 1 < minLevel
              THEN p
              ELSE searchLoopStopsAtEqual(N, N[p].below, level - 1, newKey,
                                          minLevel)
    ELSE searchLoopStopsAtEqual(N, N[p].next, level, newKey, minLevel)

\* ---- search: the loop of search(), p and current always being equal
RECURSIVE searchLoop(_, _, _, _, _)
searchLoop(N, p, level, newKey, minLevel) ==
    IF p = NULL THEN NULL
    ELSE IF KeyEq(N[p].value, newKey) THEN NULL
    ELSE IF N[p].next # NULL /\ KeyLess(newKey, N[N[p].next].value)
         THEN IF level - 1 < minLevel
              THEN p
              ELSE searchLoop(N, N[p].below, level - 1, newKey, minLevel)
    ELSE searchLoop(N, N[p].next, level, newKey, minLevel)

\* A search that takes no account of minLevel and goes down to level 0.
searchToBottom(M, s, element, minLevel) ==
    searchLoop(M.nodes, M.lnodes[M.head[s]].next, M.lnodes[M.head[s]].value,
               SkipListKey("Normal", element), 0)

\* search(element, minLevel) on set s; the caller has a non-null head.
search(M, s, element, minLevel) ==
    searchLoop(M.nodes, M.lnodes[M.head[s]].next, M.lnodes[M.head[s]].value,
               SkipListKey("Normal", element), minLevel)

\* ---- the const member functions.  A call that dereferences a null head
\* has no result; Faults(M, s) says so and the result is then a placeholder.
Faults(M, s) == M.head[s] = NULL

\* The conversions of int to unsigned int: an int that is not negative keeps
\* its value.  A negative int x becomes 2^32 + x, which is written x here:
\* the model's integers end at 2^31 - 1, and no two results are confused,
\* every unsigned value here being below 2^31 or above 2^32 - 2^31.
ToUnsigned(x) == x

\* A size that counts the nodes of the top level, less the sentinels.
sizeOfTopLevel(M, s) ==
    IF Faults(M, s) THEN 0
    ELSE ToUnsigned(Len(ChainFrom(M.nodes, M.lnodes[M.head[s]].next)) - 2)

size(M, s) == ToUnsigned(M.elements[s])

levelCount(M, s) ==
    IF Faults(M, s) THEN -1 ELSE M.lnodes[M.head[s]].value + 1

contains(M, s, element) ==
    IF Faults(M, s) THEN FALSE ELSE search(M, s, element, 0) = NULL

elementsOnLevel(M, s, level) ==
    LET list == getLevel(M, s, level)
    IN  IF list = NULL THEN 0
        ELSE ToUnsigned(Len(ChainFrom(M.nodes, M.lnodes[list].next)) - 2)

isElementOnLevel(M, s, element, level) ==
    LET list == getLevel(M, s, level)
    IN  IF list = NULL THEN FALSE
        ELSE LET ch == ChainFrom(M.nodes, M.lnodes[list].next)
             IN  \E i \in 1..Len(ch) :
                    KeyEq(SkipListKey("Normal", element), M.nodes[ch[i]].value)

\* ---- updateTail: tail becomes the last node of the top level, and keeps
\* its value when the top level has no node.
updateTail(M, s) ==
    LET ch == ChainFrom(M.nodes, M.lnodes[M.head[s]].next)
    IN  IF ch = <<>> THEN M
        ELSE [M EXCEPT !.tail[s] = ch[Len(ch)]]

\* ---- object creation.  f counts down to the creation at which operator
\* new throws std::bad_alloc: 1 means this one throws, 0 means none does.
Throws(f) == f = 1
After(f) == IF f = 0 THEN 0 ELSE f - 1

\* A createNewLevel that builds the new level of its two sentinels only.
createNewLevelWithoutElement(M, s, element, current, f) ==
    LET old == M.head[s]
        la == NewAddr(M.lnodes)
        na == NewAddr(M.nodes)
        nc == NewAddr(M.nodes @@ (na :> 0))
    IN  IF Throws(f) THEN [M |-> M, out |-> "throw", f |-> 0]
        ELSE [M |-> updateTail(
                      [M EXCEPT
                         !.lnodes = M.lnodes @@
                             (la :> LNode(M.lnodes[old].value + 1, old, na)),
                         !.nodes = M.nodes @@
                             (na :> Node(SkipListKey("NegInf", 0),
                                         M.lnodes[old].next, nc)) @@
                             (nc :> Node(SkipListKey("PosInf", 0),
                                         M.tail[s], NULL)),
                         !.head[s] = la], s),
              out |-> "ok", f |-> 0]

\* A createNewLevel that gives the new level the number of the old top.
createNewLevelSameNumber(M, s, element, current, f) ==
    LET old == M.head[s]
        la == NewAddr(M.lnodes)
        na == NewAddr(M.nodes)
        nb == NewAddr(M.nodes @@ (na :> 0))
        nc == NewAddr(M.nodes @@ (na :> 0) @@ (nb :> 0))
    IN  IF Throws(f) THEN [M |-> M, out |-> "throw", f |-> 0]
        ELSE [M |-> updateTail(
                      [M EXCEPT
                         !.lnodes = M.lnodes @@
                             (la :> LNode(M.lnodes[old].value, old, na)),
                         !.nodes = M.nodes @@
                             (na :> Node(SkipListKey("NegInf", 0),
                                         M.lnodes[old].next, nb)) @@
                             (nb :> Node(SkipListKey("Normal", element),
                                         current, nc)) @@
                             (nc :> Node(SkipListKey("PosInf", 0),
                                         M.tail[s], NULL)),
                         !.head[s] = la], s),
              out |-> "ok", f |-> 0]

\* A createNewLevel whose PosInf sentinel has no link below.
createNewLevelOpenTail(M, s, element, current, f) ==
    LET old == M.head[s]
        la == NewAddr(M.lnodes)
        na == NewAddr(M.nodes)
        nb == NewAddr(M.nodes @@ (na :> 0))
        nc == NewAddr(M.nodes @@ (na :> 0) @@ (nb :> 0))
    IN  IF Throws(f) THEN [M |-> M, out |-> "throw", f |-> 0]
        ELSE [M |-> updateTail(
                      [M EXCEPT
                         !.lnodes = M.lnodes @@
                             (la :> LNode(M.lnodes[old].value + 1, old, na)),
                         !.nodes = M.nodes @@
                             (na :> Node(SkipListKey("NegInf", 0),
                                         M.lnodes[old].next, nb)) @@
                             (nb :> Node(SkipListKey("Normal", element),
                                         current, nc)) @@
                             (nc :> Node(SkipListKey("PosInf", 0),
                                         NULL, NULL)),
                         !.head[s] = la], s),
              out |-> "ok", f |-> 0]

\* ---- createNewLevel(element, current): the result is the memory, how the
\* call ended ("ok" or "throw") and the countdown left.
createNewLevel(M, s, element, current, f) ==
    LET f1 == After(f)
        f2 == After(f1)
        f3 == After(f2)
        old == M.head[s]
        la == NewAddr(M.lnodes)
        na == NewAddr(M.nodes)
        nb == NewAddr(M.nodes @@ (na :> 0))
        nc == NewAddr(M.nodes @@ (na :> 0) @@ (nb :> 0))
        \* head = new LNode(head->value + 1, head, nullptr)
        L1 == M.lnodes @@ (la :> LNode(M.lnodes[old].value + 1, old, NULL))
        \* head->next = new Node(-INF, head->below->next, nullptr)
        L2 == [L1 EXCEPT ![la].next = na]
        N2 == M.nodes @@
                  (na :> Node(SkipListKey("NegInf", 0), M.lnodes[old].next, NULL))
        \* head->next->next = new Node(element, current, nullptr)
        N3 == [N2 EXCEPT ![na].next = nb] @@
                  (nb :> Node(SkipListKey("Normal", element), current, NULL))
        \* head->next->next->next = new Node(+INF, tail, nullptr)
        N4 == [N3 EXCEPT ![nb].next = nc] @@
                  (nc :> Node(SkipListKey("PosInf", 0), M.tail[s], NULL))
    IN  IF Throws(f) THEN [M |-> M, out |-> "throw", f |-> 0]
        ELSE IF Throws(f1)
        THEN [M |-> [M EXCEPT !.lnodes = L1, !.head[s] = la],
              out |-> "throw", f |-> 0]
        ELSE IF Throws(f2)
        THEN [M |-> [M EXCEPT !.lnodes = L2, !.nodes = N2, !.head[s] = la],
              out |-> "throw", f |-> 0]
        ELSE IF Throws(f3)
        THEN [M |-> [M EXCEPT !.lnodes = L2, !.nodes = N3, !.head[s] = la],
              out |-> "throw", f |-> 0]
        ELSE [M |-> updateTail(
                      [M EXCEPT !.lnodes = L2, !.nodes = N4, !.head[s] = la], s),
              out |-> "ok", f |-> After(f3)]

\* An insertNewNode that makes the node and never stores it in n->next.
insertNewNodeUnlinked(M, n, current, element, f) ==
    LET a == NewAddr(M.nodes)
    IN  IF Throws(f) THEN [M |-> M, out |-> "throw", f |-> 0, ret |-> NULL]
        ELSE [M |-> [M EXCEPT
                       !.nodes = M.nodes @@
                           (a :> Node(SkipListKey("Normal", element), current,
                                      M.nodes[n].next))],
              out |-> "ok", f |-> After(f), ret |-> a]

\* An insertNewNode whose node has no link below.
insertNewNodeNoBelow(M, n, current, element, f) ==
    LET a == NewAddr(M.nodes)
    IN  IF Throws(f) THEN [M |-> M, out |-> "throw", f |-> 0, ret |-> NULL]
        ELSE [M |-> [M EXCEPT
                       !.nodes = [M.nodes EXCEPT ![n].next = a] @@
                           (a :> Node(SkipListKey("Normal", element), NULL,
                                      M.nodes[n].next))],
              out |-> "ok", f |-> After(f), ret |-> a]

\* ---- insertNewNode(n, current, element); the result also carries the
\* address returned.  n is not null (the caller faults otherwise).
insertNewNode(M, n, current, element, f) ==
    LET a == NewAddr(M.nodes)
    IN  IF Throws(f) THEN [M |-> M, out |-> "throw", f |-> 0, ret |-> NULL]
        ELSE [M |-> [M EXCEPT
                       !.nodes = [M.nodes EXCEPT ![n].next = a] @@
                           (a :> Node(SkipListKey("Normal", element), current,
                                      M.nodes[n].next))],
              out |-> "ok", f |-> After(f), ret |-> a]

\* ---- the promotion loop of add: answers is the number of times the level
\* tester still answers true; asked counts the calls made to it.
RECURSIVE promote(_, _, _, _, _, _, _, _)
promote(M, s, element, temp, currentLevel, answers, asked, f) ==
    IF answers = 0
    THEN [M |-> M, out |-> "ok", consulted |-> asked + 1]
    ELSE IF currentLevel + 1 > M.lnodes[M.head[s]].value
    THEN Let(createNewLevel(M, s, element, temp, f),
             LAMBDA r :
               IF r.out # "ok"
               THEN [M |-> r.M, out |-> r.out, consulted |-> asked + 1]
               ELSE promote(r.M, s, element,
                            r.M.nodes[r.M.lnodes[r.M.head[s]].next].next,
                            currentLevel + 1, answers - 1, asked + 1, r.f))
    ELSE Let(search(M, s, element, currentLevel + 1),
             LAMBDA n :
               IF n = NULL /\ ~Throws(f)
               THEN [M |-> M, out |-> "fault", consulted |-> asked + 1]
               ELSE Let(insertNewNode(M, n, temp, element, f),
                        LAMBDA r :
                          IF r.out # "ok"
                          THEN [M |-> r.M, out |-> r.out,
                                consulted |-> asked + 1]
                          ELSE promote(r.M, s, element, r.ret,
                                       currentLevel + 1, answers - 1,
                                       asked + 1, r.f)))

\* A first try block that leaves out elements++.
insertBottomNoCount(M, s, current, a, element) ==
    [M EXCEPT
       !.nodes = [M.nodes EXCEPT ![current].next = a] @@
           (a :> Node(SkipListKey("Normal", element), NULL,
                      M.nodes[current].next))]

\* A first try block that puts the new node behind the first node of the
\* level, not behind current.
insertBottomAfterFirst(M, s, current, a, element) ==
    LET first == M.lnodes[getLevel(M, s, 0)].next
    IN  [M EXCEPT
           !.nodes = [M.nodes EXCEPT ![first].next = a] @@
               (a :> Node(SkipListKey("Normal", element), NULL,
                          M.nodes[first].next)),
           !.elements[s] = M.elements[s] + 1]

\* An insertion into level 0 that puts the new node in the place of the
\* node after current, when that is not the last of the level.
insertBottomOverNext(M, s, current, a, element) ==
    [M EXCEPT
       !.nodes = [M.nodes EXCEPT ![current].next = a] @@
           (a :> Node(SkipListKey("Normal", element), NULL,
                      IF M.nodes[M.nodes[current].next].next = NULL
                      THEN M.nodes[current].next
                      ELSE M.nodes[M.nodes[current].next].next)),
       !.elements[s] = M.elements[s] + 1]

\* ---- the first try block of add: the new node goes into level 0 after
\* current and the element count goes up.  a is the new node's address.
insertBottom(M, s, current, a, element) ==
    [M EXCEPT
       !.nodes = [M.nodes EXCEPT ![current].next = a] @@
           (a :> Node(SkipListKey("Normal", element), NULL,
                      M.nodes[current].next)),
       !.elements[s] = M.elements[s] + 1]

\* An add whose loop promotes once before it asks the level tester.
addPromotingFirst(M, s, element, answers, f) ==
    IF Faults(M, s) THEN [M |-> M, out |-> "fault", consulted |-> 0]
    ELSE IF Throws(f) THEN [M |-> M, out |-> "throw", consulted |-> 0]
    ELSE Let(search(M, s, element, 0),
             LAMBDA current :
               IF current = NULL
               THEN [M |-> M, out |-> "fault", consulted |-> 0]
               ELSE Let(NewAddr(M.nodes),
                        LAMBDA a :
                          promote(insertBottom(M, s, current, a, element),
                                  s, element, a, 0, answers + 1, 0, After(f))))

\* An add with an if where the code has its while: the level tester is
\* asked once, and once more only to end the call.
addConsultingOnce(M, s, element, answers, f) ==
    IF Faults(M, s) THEN [M |-> M, out |-> "fault", consulted |-> 0]
    ELSE IF Throws(f) THEN [M |-> M, out |-> "throw", consulted |-> 0]
    ELSE Let(search(M, s, element, 0),
             LAMBDA current :
               IF current = NULL
               THEN [M |-> M, out |-> "fault", consulted |-> 0]
               ELSE Let(NewAddr(M.nodes),
                        LAMBDA a :
                          promote(insertBottom(M, s, current, a, element),
                                  s, element, a, 0,
                                  IF answers > 1 THEN 1 ELSE answers, 0,
                                  After(f))))

\* ---- add(element) on set s.  A null head, or the nullptr that search
\* returns for an element it found, is dereferenced: the call faults.
add(M, s, element, answers, f) ==
    IF Faults(M, s) THEN [M |-> M, out |-> "fault", consulted |-> 0]
    ELSE IF Throws(f) THEN [M |-> M, out |-> "throw", consulted |-> 0]
    ELSE Let(search(M, s, element, 0),
             LAMBDA current :
               IF current = NULL
               THEN [M |-> M, out |-> "fault", consulted |-> 0]
               ELSE Let(NewAddr(M.nodes),
                        LAMBDA a :
                          promote(insertBottom(M, s, current, a, element),
                                  s, element, a, 0, answers, 0, After(f))))

\* ---- deleteSkipList(list) with deleteNode on every level: the LNode
\* chain from list and every Node chain hanging off it are freed.
RECURSIVE LevelsFrom(_, _)
LevelsFrom(L, p) == IF p = NULL THEN <<>> ELSE <<p>> \o LevelsFrom(L, L[p].below)

Range(q) == {q[i] : i \in 1..Len(q)}

deleteSkipList(M, list) ==
    LET ls == Range(LevelsFrom(M.lnodes, list))
        ns == UNION {Range(ChainFrom(M.nodes, M.lnodes[l].next)) : l \in ls}
    IN  [M EXCEPT
           !.nodes = [a \in (DOMAIN M.nodes) \ ns |-> M.nodes[a]],
           !.lnodes = [a \in (DOMAIN M.lnodes) \ ls |-> M.lnodes[a]]]

\* ---- linkLevels(s, list): one new LNode for each level of the source, top
\* down.  p walks the source, current is the last LNode made, list the
\* caller's pointer (left as it was when the source has no level).
RECURSIVE linkLevelsFrom(_, _, _, _, _)
linkLevelsFrom(M, p, current, list, f) ==
    IF p = NULL THEN [M |-> M, list |-> list, out |-> "ok", f |-> f]
    ELSE IF Throws(f) THEN [M |-> M, list |-> list, out |-> "throw", f |-> 0]
    ELSE Let(NewAddr(M.lnodes),
             LAMBDA la :
               LET made == M.lnodes @@
                               (la :> LNode(M.lnodes[p].value, NULL, NULL))
               IN  IF current # NULL
                   THEN linkLevelsFrom(
                          [M EXCEPT
                             !.lnodes = [made EXCEPT ![current].below = la]],
                          M.lnodes[p].below, la, list, After(f))
                   ELSE linkLevelsFrom([M EXCEPT !.lnodes = made],
                                       M.lnodes[p].below, la, la, After(f)))

linkLevels(M, src, list, f) == linkLevelsFrom(M, M.head[src], NULL, list, f)

\* ---- linkNext(s, list): the inner loop copies the keys of one source
\* level (n walks it) behind curr, the last Node made on level current.
RECURSIVE linkNextNodes(_, _, _, _, _)
linkNextNodes(M, n, current, curr, f) ==
    IF n = NULL THEN [M |-> M, out |-> "ok", f |-> f]
    ELSE IF Throws(f) THEN [M |-> M, out |-> "throw", f |-> 0]
    ELSE Let(NewAddr(M.nodes),
             LAMBDA a :
               LET made == M.nodes @@ (a :> Node(M.nodes[n].value, NULL, NULL))
               IN  IF curr # NULL
                   THEN linkNextNodes(
                          [M EXCEPT !.nodes = [made EXCEPT ![curr].next = a]],
                          M.nodes[n].next, current, a, After(f))
                   ELSE linkNextNodes(
                          [M EXCEPT !.nodes = made,
                                    !.lnodes[current].next = a],
                          M.nodes[n].next, current, a, After(f)))

\* the outer loop: p walks the source's levels, current the copy's
RECURSIVE linkNextLevels(_, _, _, _)
linkNextLevels(M, p, current, f) ==
    IF p = NULL THEN [M |-> M, out |-> "ok", f |-> f]
    ELSE Let(linkNextNodes(M, M.lnodes[p].next, current, NULL, f),
             LAMBDA r :
               IF r.out # "ok" THEN r
               ELSE linkNextLevels(r.M, M.lnodes[p].below,
                                   r.M.lnodes[current].below, r.f))

linkNext(M, src, list, f) == linkNextLevels(M, M.head[src], list, f)

\* A linkBelow loop that steps along the level and never stores a below link.
RECURSIVE linkBelowNodesNoLink(_, _, _)
linkBelowNodesNoLink(M, p, curr) ==
    IF p = NULL THEN [M |-> M, out |-> "ok"]
    ELSE IF curr = NULL THEN [M |-> M, out |-> "fault"]
    ELSE IF KeyEq(M.nodes[curr].value, M.nodes[p].value)
         THEN linkBelowNodesNoLink(M, M.nodes[p].next, M.nodes[curr].next)
    ELSE linkBelowNodesNoLink(M, M.nodes[p].next, curr)

\* ---- linkBelow(s, list): on every level of the copy that has a level
\* below, p walks the level below and curr the level itself.
RECURSIVE linkBelowNodes(_, _, _)
linkBelowNodes(M, p, curr) ==
    IF p = NULL THEN [M |-> M, out |-> "ok"]
    ELSE IF curr = NULL THEN [M |-> M, out |-> "fault"]
    ELSE IF KeyEq(M.nodes[curr].value, M.nodes[p].value)
         THEN linkBelowNodes([M EXCEPT !.nodes[curr].below = p],
                             M.nodes[p].next, M.nodes[curr].next)
    ELSE linkBelowNodes(M, M.nodes[p].next, curr)

RECURSIVE linkBelowLevels(_, _)
linkBelowLevels(M, current) ==
    IF M.lnodes[current].below = NULL THEN [M |-> M, out |-> "ok"]
    ELSE Let(linkBelowNodes(M, M.lnodes[M.lnodes[current].below].next,
                            M.lnodes[current].next),
             LAMBDA r :
               IF r.out # "ok" THEN r
               ELSE linkBelowLevels(r.M, M.lnodes[current].below))

\* A linkBelow that walks the source's level below, not the copy's: the
\* copy's below links then lead into the source's grid.
RECURSIVE linkBelowLevelsIntoSource(_, _, _)
linkBelowLevelsIntoSource(M, current, scurrent) ==
    IF M.lnodes[current].below = NULL THEN [M |-> M, out |-> "ok"]
    ELSE Let(linkBelowNodes(M, M.lnodes[M.lnodes[scurrent].below].next,
                            M.lnodes[current].next),
             LAMBDA r :
               IF r.out # "ok" THEN r
               ELSE linkBelowLevelsIntoSource(r.M, M.lnodes[current].below,
                                              M.lnodes[scurrent].below))

linkBelowIntoSource(M, src, list) ==
    IF list = NULL THEN [M |-> M, out |-> "fault"]
    ELSE linkBelowLevelsIntoSource(M, list, M.head[src])

\* list is dereferenced at once: a null list faults.  The source s is a
\* parameter the function never uses.
linkBelow(M, src, list) ==
    IF list = NULL THEN [M |-> M, out |-> "fault"]
    ELSE linkBelowLevels(M, list)

\* ---- the three calls that build the copy of src, as both the copy
\* constructor and copy assignment make them.  list0 is the pointer the copy
\* is built on: the result carries the pointer, the memory and the outcome.
cloneGrid(M, src, list0, f) ==
    Let(linkLevels(M, src, list0, f),
        LAMBDA r1 :
          IF r1.out # "ok"
          THEN [M |-> r1.M, list |-> r1.list, out |-> r1.out]
          ELSE Let(linkNext(r1.M, src, r1.list, r1.f),
                   LAMBDA r2 :
                     IF r2.out # "ok"
                     THEN [M |-> r2.M, list |-> r1.list, out |-> r2.out]
                     ELSE Let(linkBelow(r2.M, src, r1.list),
                              LAMBDA r3 :
                                [M |-> r3.M, list |-> r1.list,
                                 out |-> r3.out])))

\* ---- SkipListSet(const SkipListSet& s), every allocation succeeding.  The
\* head member starts out uninitialised and linkLevels leaves it so when the
\* source has no level; linkBelow then dereferences it.
copyConstruct(M, d, src) ==
    IF M.head[src] = NULL THEN [M |-> M, out |-> "fault"]
    ELSE Let(cloneGrid(M, src, NULL, 0),
             LAMBDA r :
               IF r.out # "ok" THEN [M |-> r.M, out |-> r.out]
               ELSE [M |-> [updateTail([r.M EXCEPT !.head[d] = r.list], d)
                               EXCEPT !.elements[d] = M.elements[src]],
                     out |-> "ok"])

\* A copy assignment that frees the copy it has built and keeps the grid
\* of the destination.
copyAssignKeepsGrid(M, d, src) ==
    Let(cloneGrid(M, src, NULL, 0),
        LAMBDA r :
          IF r.out # "ok" THEN [M |-> r.M, out |-> r.out]
          ELSE [M |-> [deleteSkipList(r.M, r.list)
                         EXCEPT !.elements[d] = M.elements[src]],
                out |-> "ok"])

\* ---- operator=(const SkipListSet& s), every allocation succeeding.
copyAssign(M, d, src) ==
    Let(cloneGrid(M, src, NULL, 0),
        LAMBDA r :
          IF r.out # "ok" THEN [M |-> r.M, out |-> r.out]
          ELSE [M |-> [updateTail(
                         [deleteSkipList(r.M, r.M.head[d])
                            EXCEPT !.head[d] = r.list], d)
                         EXCEPT !.elements[d] = M.elements[src]],
                out |-> "ok"])

\* ---- SkipListSet(const SkipListSet& s) when an object creation throws.
\* The head member is never initialised before linkLevels(s, head) runs, and
\* linkLevels stores into it only after its first LNode exists.  u is what
\* the member's storage holds: nullptr, the address of an LNode that is
\* alive, or Wild, an address at which there is no LNode.
Wild == -1

IndeterminateLNode(M) == {NULL, Wild} \cup DOMAIN M.lnodes

\* The catch block runs deleteSkipList(head) and rethrows.  When head still
\* holds u and u is not null, deleteSkipList works on whatever u points at:
\* it frees the levels and nodes of a grid this object never built, or
\* reads memory that holds no LNode; either way the outcome is "fault".
copyConstructThrows(M, d, src, f, u) ==
    Let(cloneGrid(M, src, u, f),
        LAMBDA r :
          IF r.out # "throw" THEN [M |-> r.M, out |-> r.out]
          ELSE IF r.list = NULL THEN [M |-> r.M, out |-> "throw"]
          ELSE IF r.list = Wild THEN [M |-> r.M, out |-> "fault"]
          ELSE [M |-> deleteSkipList(r.M, r.list),
                out |-> IF r.list = u THEN "fault" ELSE "throw"])

\* ---- operator=(const SkipListSet& s) when an object creation throws: the
\* catch block runs deleteSkipList(temp) and rethrows.
copyAssignThrows(M, d, src, f) ==
    Let(cloneGrid(M, src, NULL, f),
        LAMBDA r :
          IF r.out # "throw" THEN [M |-> r.M, out |-> r.out]
          ELSE [M |-> deleteSkipList(r.M, r.list), out |-> "throw"])

\* ---- SkipListSet(SkipListSet&& s)
moveConstruct(M, d, src) ==
    [M EXCEPT !.head = [@ EXCEPT ![d] = M.head[src], ![src] = NULL],
              !.tail = [@ EXCEPT ![d] = M.tail[src], ![src] = NULL],
              !.elements[d] = M.elements[src]]

\* A move assignment that leaves out elements = s.elements.
moveAssignKeepsCount(M, d, src) ==
    [M EXCEPT !.head = [[@ EXCEPT ![d] = M.head[src]] EXCEPT ![src] = M.head[d]],
              !.tail = [[@ EXCEPT ![d] = M.tail[src]] EXCEPT ![src] = M.tail[d]]]

\* ---- operator=(SkipListSet&& s)
moveAssign(M, d, src) ==
    [M EXCEPT !.head = [[@ EXCEPT ![d] = M.head[src]] EXCEPT ![src] = M.head[d]],
              !.tail = [[@ EXCEPT ![d] = M.tail[src]] EXCEPT ![src] = M.tail[d]],
              !.elements[d] = M.elements[src]]

\* ---- SkipListSet(levelTester): the constructor.  The sentinels' payload
\* is the local `ElementType temp;`, which nothing initialises: t stands
\* for what it holds.
construct(M, s, t) ==
    LET la == NewAddr(M.lnodes)
        na == NewAddr(M.nodes)
        nb == NewAddr(M.nodes @@ (na :> 0))
        M1 == [M EXCEPT
                 !.lnodes = M.lnodes @@ (la :> LNode(0, NULL, na)),
                 !.nodes = M.nodes @@
                     (na :> Node(SkipListKey("NegInf", t), NULL, nb)) @@
                     (nb :> Node(SkipListKey("PosInf", t), NULL, NULL)),
                 !.head[s] = la]
    IN  [updateTail(M1, s) EXCEPT !.elements[s] = 0]

\* The value of an ElementType nothing has initialised.  It is no element:
\* comparing it with one is an error, which TLC reports for any behaviour
\* that comes to depend on it.
Indeterminate == "indeterminate"

NoHeap == [a \in {} |-> 0]

\* A std::map that holds nothing: the Digraph member before any addVertex.
EmptyMap == [v \in {} |-> 0]

\* The DoublyLinkedList, its Iterator and the HashSet where none of them has
\* been constructed.
NoList == [head |-> NULL, tail |-> NULL]

NoIterator == [made |-> FALSE, current |-> NULL, pastStart |-> FALSE,
               pastEnd |-> FALSE, clist |-> NoList]

NoHashSet == [hashFunction |-> "", stored |-> 0, capacity |-> 0, set |-> <<>>]

Unbuilt == [nodes |-> NoHeap, lnodes |-> NoHeap,
            head |-> [s \in Sets |-> NULL], tail |-> [s \in Sets |-> NULL],
            elements |-> [s \in Sets |-> 0]]

Store(M) ==
    /\ nodes' = M.nodes
    /\ lnodes' = M.lnodes
    /\ head' = M.head
    /\ tail' = M.tail
    /\ elements' = M.elements

Call(op, dst, src, element, answers, f, out, consulted) ==
    [op |-> op, dst |-> dst, src |-> src, element |-> element,
     answers |-> answers, f |-> f, out |-> out, consulted |-> consulted]

\* Set 1 has been constructed; set 2 is storage no constructor has run on.
Init ==
    /\ \E M \in {construct(Unbuilt, 1, Indeterminate)} :
          /\ nodes = M.nodes
          /\ lnodes = M.lnodes
          /\ head = M.head
          /\ tail = M.tail
          /\ elements = M.elements
    /\ live = [s \in Sets |-> s = 1]
    /\ status = "run"
    /\ last = Call("construct", 1, 0, 0, 0, 0, "ok", 0)
    /\ added = [s \in Sets |-> {}]
    /\ ops = 0
    /\ map = EmptyMap
    /\ dnodes = NoHeap
    /\ dll = NoList
    /\ it = NoIterator
    /\ hashset = NoHashSet
    /\ hadded = {}

\* ---- a call of one of the const member functions contains, size,
\* levelCount, elementsOnLevel and isElementOnLevel on set s: the memory the
\* call leaves, how it ended and what it returned.  None of them, nor search
\* and getLevel which they call, assigns to a member or to an object of the
\* grid, and none calls the level tester.
ConstOps == {"contains", "size", "levelCount", "elementsOnLevel",
             "isElementOnLevel"}

\* A const call whose contains also counts the element it finds.
constCallCounting(M, s, op, element, level) ==
    [M |-> IF op = "contains" /\ ~Faults(M, s) /\ contains(M, s, element)
           THEN [M EXCEPT !.elements[s] = M.elements[s] + 1]
           ELSE M,
     out |-> IF op \in {"contains", "levelCount"} /\ Faults(M, s)
             THEN "fault" ELSE "ok",
     ret |-> CASE op = "contains" -> contains(M, s, element)
               [] op = "size" -> size(M, s)
               [] op = "levelCount" -> levelCount(M, s)
               [] op = "elementsOnLevel" -> elementsOnLevel(M, s, level)
               [] OTHER -> isElementOnLevel(M, s, element, level)]

constCall(M, s, op, element, level) ==
    [M |-> M,
     out |-> IF op \in {"contains", "levelCount"} /\ Faults(M, s)
             THEN "fault" ELSE "ok",
     ret |-> CASE op = "contains" -> contains(M, s, element)
               [] op = "size" -> size(M, s)
               [] op = "levelCount" -> levelCount(M, s)
               [] op = "elementsOnLevel" -> elementsOnLevel(M, s, level)
               [] OTHER -> isElementOnLevel(M, s, element, level)]

\* The record of a const call: that of any call, with the level asked about
\* and the value returned.
Answer(op, dst, element, level, out, ret) ==
    Call(op, dst, 0, element, 0, 0, out, 0) @@ [level |-> level, ret |-> ret]

\* ---- s.add(element), the level tester answering true `answers` times and
\* then false, every allocation succeeding.
Add(s, element, answers) ==
    /\ status = "run"
    /\ UNCHANGED <<map, dnodes, dll, it, hashset, hadded>>
    /\ live[s]
    /\ \E r \in {add(Mem, s, element, answers, 0)} :
           /\ Store(r.M)
           /\ status' = IF r.out = "fault" THEN "fault" ELSE "run"
           /\ last' = Call("add", s, 0, element, answers, 0, r.out, r.consulted)
           /\ added' = IF r.out = "ok"
                       THEN [added EXCEPT ![s] = @ \cup {element}]
                       ELSE added
    /\ UNCHANGED live

\* The object creations one add can make: the level-0 node, then up to four
\* for each promotion.
MaxCreations == 1 + 4 * MaxPromote

\* ---- s.add(element) in which the f-th object creation throws bad_alloc.
AddFail(s, element, answers, f) ==
    /\ status = "run"
    /\ UNCHANGED <<map, dnodes, dll, it, hashset, hadded>>
    /\ live[s]
    /\ \E r \in {add(Mem, s, element, answers, f)} :
           /\ r.out = "throw"
           /\ Store(r.M)
           /\ status' = "run"
           /\ last' = Call("add", s, 0, element, answers, f, r.out, r.consulted)
    /\ UNCHANGED <<live, added>>

\* ---- SkipListSet d(src): copy construction of the unbuilt set d.
CopyConstruct(d, src) ==
    /\ status = "run"
    /\ UNCHANGED <<map, dnodes, dll, it, hashset, hadded>>
    /\ ~live[d] /\ live[src]
    /\ \E r \in {copyConstruct(Mem, d, src)} :
           /\ Store(r.M)
           /\ status' = IF r.out = "fault" THEN "fault" ELSE "run"
           /\ last' = Call("copyConstruct", d, src, 0, 0, 0, r.out, 0)
           /\ live' = [live EXCEPT ![d] = r.out = "ok"]
           /\ added' = IF r.out = "ok" THEN [added EXCEPT ![d] = added[src]]
                       ELSE added

\* ---- SkipListSet d(std::move(src)): move construction of the unbuilt d.
MoveConstruct(d, src) ==
    /\ status = "run"
    /\ UNCHANGED <<map, dnodes, dll, it, hashset, hadded>>
    /\ ~live[d] /\ live[src]
    /\ Store(moveConstruct(Mem, d, src))
    /\ status' = "run"
    /\ last' = Call("moveConstruct", d, src, 0, 0, 0, "ok", 0)
    /\ live' = [live EXCEPT ![d] = TRUE]
    /\ added' = [added EXCEPT ![d] = added[src], ![src] = {}]

\* ---- d = src (d = d included)
CopyAssign(d, src) ==
    /\ status = "run"
    /\ UNCHANGED <<map, dnodes, dll, it, hashset, hadded>>
    /\ live[d] /\ live[src]
    /\ \E r \in {copyAssign(Mem, d, src)} :
           /\ Store(r.M)
           /\ status' = IF r.out = "fault" THEN "fault" ELSE "run"
           /\ last' = Call("copyAssign", d, src, 0, 0, 0, r.out, 0)
           /\ added' = IF r.out = "ok" THEN [added EXCEPT ![d] = added[src]]
                       ELSE added
    /\ UNCHANGED live

\* ---- d = std::move(src) (d = std::move(d) included)
MoveAssign(d, src) ==
    /\ status = "run"
    /\ UNCHANGED <<map, dnodes, dll, it, hashset, hadded>>
    /\ live[d] /\ live[src]
    /\ Store(moveAssign(Mem, d, src))
    /\ status' = "run"
    /\ last' = Call("moveAssign", d, src, 0, 0, 0, "ok", 0)
    /\ added' = IF d = src THEN added
                ELSE [added EXCEPT ![d] = added[src], ![src] = {}]
    /\ UNCHANGED live

\* The object creations one copy can make: an LNode for each level, and on
\* each level a Node for each element and each sentinel.
MaxCopyCreations == (MaxPromote + 1) * (MaxElem + 3)

\* ---- SkipListSet d(src) in which the f-th object creation throws
\* bad_alloc, the head member's storage holding u.  No object d comes to be.
CopyConstructFail(d, src, f, u) ==
    /\ status = "run"
    /\ UNCHANGED <<map, dnodes, dll, it, hashset, hadded>>
    /\ ~live[d] /\ live[src]
    /\ \E r \in {copyConstructThrows(Mem, d, src, f, u)} :
           /\ r.out \in {"throw", "fault"}
           /\ Store(r.M)
           /\ status' = IF r.out = "fault" THEN "fault" ELSE "run"
           /\ last' = Call("copyConstruct", d, src, 0, 0, f, r.out, 0)
    /\ UNCHANGED <<live, added>>

\* ---- d = src in which the f-th object creation throws bad_alloc.
CopyAssignFail(d, src, f) ==
    /\ status = "run"
    /\ UNCHANGED <<map, dnodes, dll, it, hashset, hadded>>
    /\ live[d] /\ live[src]
    /\ \E r \in {copyAssignThrows(Mem, d, src, f)} :
           /\ r.out = "throw"
           /\ Store(r.M)
           /\ status' = "run"
           /\ last' = Call("copyAssign", d, src, 0, 0, f, r.out, 0)
    /\ UNCHANGED <<live, added>>

\* ---- a const member function called on set s.
Const(s, op, element, level) ==
    /\ status = "run"
    /\ UNCHANGED <<map, dnodes, dll, it, hashset, hadded>>
    /\ live[s]
    /\ \E r \in {constCall(Mem, s, op, element, level)} :
           /\ Store(r.M)
           /\ status' = IF r.out = "fault" THEN "fault" ELSE "run"
           /\ last' = Answer(op, s, element, level, r.out, r.ret)
    /\ UNCHANGED <<live, added>>

Contains(s, element) == Const(s, "contains", element, 0)
Size(s) == Const(s, "size", 0, 0)
LevelCount(s) == Const(s, "levelCount", 0, 0)
ElementsOnLevel(s, level) == Const(s, "elementsOnLevel", 0, level)
IsElementOnLevel(s, element, level) ==
    Const(s, "isElementOnLevel", element, level)

\* ---- SkipListKey objects compared.  Normal keys hold an element; sentinel
\* keys hold whatever they were built with: createNewLevel's ElementType(),
\* which is 0, or any element.
Keys ==
    {SkipListKey("Normal", e) : e \in Elems}
    \cup {SkipListKey(k, e) : k \in {"NegInf", "PosInf"}, e \in 0..MaxElem}

\* No set has been constructed; three keys are at hand.
InitKey ==
    /\ nodes = Unbuilt.nodes
    /\ lnodes = Unbuilt.lnodes
    /\ head = Unbuilt.head
    /\ tail = Unbuilt.tail
    /\ elements = Unbuilt.elements
    /\ live = [s \in Sets |-> FALSE]
    /\ status = "run"
    /\ added = [s \in Sets |-> {}]
    /\ ops = 0
    /\ map = EmptyMap
    /\ dnodes = NoHeap
    /\ dll = NoList
    /\ it = NoIterator
    /\ hashset = NoHashSet
    /\ hadded = {}
    /\ \E a \in Keys, b \in Keys, c \in Keys :
           last = [op |-> "keys", a |-> a, b |-> b, c |-> c]

\* operator< and operator== are called on each pair of the three keys.
CompareKeys ==
    /\ last.op = "keys"
    /\ last' = [op |-> "compare", a |-> last.a, b |-> last.b, c |-> last.c,
                less |-> [x \in {last.a, last.b, last.c} |->
                            [y \in {last.a, last.b, last.c} |-> KeyLess(x, y)]],
                eq |-> [x \in {last.a, last.b, last.c} |->
                          [y \in {last.a, last.b, last.c} |-> KeyEq(x, y)]]]
    /\ UNCHANGED <<nodes, lnodes, head, tail, elements, live, status, added,
                   ops, map, dnodes, dll, it, hashset, hadded>>

\* ------------------------------------------------------------- Digraph
Vertices == 1..MaxVertex
EdgeInfos == 1..MaxEdgeInfo

DigraphEdge(fromVertex, toVertex, einfo) ==
    [fromVertex |-> fromVertex, toVertex |-> toVertex, einfo |-> einfo]

DigraphVertex(vinfo, es) == [vinfo |-> vinfo, edges |-> es]

\* The keys of a std::map in the order a range-for visits them: ascending.
RECURSIVE Ascending(_)
Ascending(S) ==
    IF S = {} THEN <<>>
    ELSE LET x == CHOOSE x \in S : \A y \in S : x <= y
         IN  <<x>> \o Ascending(S \ {x})

\* ---- vertices()
vertices(m) == Ascending(DOMAIN m)

\* ---- edges(vertex), the vertex existing
edgesOf(m, vertex) ==
    [i \in 1..Len(m[vertex].edges) |->
        <<m[vertex].edges[i].fromVertex, m[vertex].edges[i].toVertex>>]

\* ---- edges()
RECURSIVE edgesFrom(_, _)
edgesFrom(m, vs) ==
    IF vs = <<>> THEN <<>>
    ELSE edgesOf(m, Head(vs)) \o edgesFrom(m, Tail(vs))

edges(m) == edgesFrom(m, vertices(m))

\* ---- addVertex(vertex, vinfo)
addVertex(m, vertex, vinfo) ==
    IF vertex \in DOMAIN m THEN [map |-> m, out |-> "DigraphException"]
    ELSE [map |-> (vertex :> DigraphVertex(vinfo, <<>>)) @@ m, out |-> "ok"]

\* ---- addEdge(fromVertex, toVertex, einfo)
addEdge(m, fromVertex, toVertex, einfo) ==
    IF fromVertex \notin DOMAIN m \/ toVertex \notin DOMAIN m
    THEN [map |-> m, out |-> "DigraphException"]
    ELSE IF <<fromVertex, toVertex>> \in Range(edgesOf(m, fromVertex))
    THEN [map |-> m, out |-> "DigraphException"]
    ELSE [map |-> [m EXCEPT ![fromVertex].edges =
                      Append(@, DigraphEdge(fromVertex, toVertex, einfo))],
          out |-> "ok"]

\* ---- removeVertex(vertex).  The loop `for (auto m : map)` works on a copy
\* of each vertex: erasing from m.second.edges takes nothing out of the
\* graph.  After erase(e) the loop increments e, an iterator the erase has
\* invalidated: from there on the behaviour is undefined, and erases says
\* whether the call comes to that.  Then the loop either goes on as if the
\* node were still there and the call ends with map.erase(vertex), or the
\* read of the freed node stops the program.
erases(m, vertex) ==
    \E v \in DOMAIN m :
        \E i \in 1..Len(m[v].edges) : m[v].edges[i].toVertex = vertex

removeVertex(m, vertex) ==
    IF vertex \notin DOMAIN m THEN {[map |-> m, out |-> "DigraphException"]}
    ELSE {[map |-> [v \in (DOMAIN m) \ {vertex} |-> m[v]], out |-> "ok"]}
         \cup (IF erases(m, vertex) THEN {[map |-> m, out |-> "fault"]}
               ELSE {})

\* ---- setAllFalse(visit)
setAllFalse(m, visit) == [v \in DOMAIN m |-> FALSE] @@ visit

\* ---- traverse(visit, vertex): the loop goes over this->edges(), every
\* edge of the graph, and visit.at throws std::out_of_range for a vertex
\* number that is no key of visit.
RECURSIVE traverse(_, _, _)
RECURSIVE traverseEdges(_, _, _, _)
traverseEdges(m, visit, es, i) ==
    IF i > Len(es) THEN [visit |-> visit, out |-> "ok"]
    ELSE IF es[i][2] \notin DOMAIN visit
    THEN [visit |-> visit, out |-> "out_of_range"]
    ELSE IF visit[es[i][2]] # TRUE
    THEN Let(traverse(m, visit, es[i][2]),
             LAMBDA r :
               IF r.out # "ok" THEN r
               ELSE traverseEdges(m, r.visit, es, i + 1))
    ELSE traverseEdges(m, visit, es, i + 1)

traverse(m, visit, vertex) ==
    traverseEdges(m, (vertex :> TRUE) @@ visit, edges(m), 1)

\* ---- isStronglyConnected(): vs is what is left of the loop over map.
RECURSIVE isStronglyConnectedFrom(_, _, _)
isStronglyConnectedFrom(m, vs, visit) ==
    IF vs = <<>> THEN [out |-> "ok", ret |-> TRUE]
    ELSE Let(traverse(m, setAllFalse(m, visit), Head(vs)),
             LAMBDA r :
               IF r.out # "ok" THEN [out |-> r.out, ret |-> FALSE]
               ELSE IF \E v \in DOMAIN r.visit : r.visit[v] = FALSE
               THEN [out |-> "ok", ret |-> FALSE]
               ELSE isStronglyConnectedFrom(m, Tail(vs), r.visit))

isStronglyConnected(m) == isStronglyConnectedFrom(m, vertices(m), EmptyMap)

\* ---- edgeCount(vertex): map.at throws std::out_of_range for a key the
\* map does not hold.
edgeCount(m, vertex) ==
    IF vertex \notin DOMAIN m THEN [out |-> "out_of_range", ret |-> 0]
    ELSE [out |-> "ok", ret |-> Len(m[vertex].edges)]

\* ---- edges(vertex) and vertexInfo(vertex): how the call ends.
edgesEnds(m, vertex) ==
    IF vertex \notin DOMAIN m THEN "DigraphException" ELSE "ok"

vertexInfoEnds(m, vertex) ==
    IF vertex \notin DOMAIN m THEN "DigraphException" ELSE "ok"

\* ---- edgeInfo(fromVertex, toVertex)
edgeInfo(m, fromVertex, toVertex) ==
    IF fromVertex \notin DOMAIN m \/ toVertex \notin DOMAIN m
    THEN [out |-> "DigraphException", ret |-> 0]
    ELSE LET es == m[fromVertex].edges
             hits == {i \in 1..Len(es) : es[i].fromVertex = fromVertex
                                         /\ es[i].toVertex = toVertex}
         IN  IF hits = {} THEN [out |-> "DigraphException", ret |-> 0]
             ELSE [out |-> "ok",
                   ret |-> es[CHOOSE i \in hits : \A j \in hits : i <= j].einfo]

\* ---- the distance setUp gives every vertex but the start vertex
Unreached == 999

\* ---- setUp(kv, dv, pv, startVertex)
setUp(m, startVertex) ==
    [kv |-> [v \in DOMAIN m |-> FALSE],
     dv |-> [v \in DOMAIN m |-> IF v = startVertex THEN 0 ELSE Unreached],
     pv |-> [v \in DOMAIN m |-> v]]

\* ---- std::priority_queue<std::pair<int,int>>: top() is the greatest pair.
PairLess(a, b) == a[1] < b[1] \/ (a[1] = b[1] /\ a[2] < b[2])

top(pq) == pq[CHOOSE i \in 1..Len(pq) : \A j \in 1..Len(pq) : ~PairLess(pq[i], pq[j])]

pop(pq) ==
    LET i == CHOOSE i \in 1..Len(pq) : \A j \in 1..Len(pq) : ~PairLess(pq[i], pq[j])
    IN  SubSeq(pq, 1, i - 1) \o SubSeq(pq, i + 1, Len(pq))

\* The edge weight function handed to findShortestPaths: an EdgeInfo is its
\* own weight.
edgeWeightFunc(einfo) == einfo

\* ---- analyzePaths: the for loop over the edges es of v, from the i-th.
\* T is kv, dv, pv and pq.  An edge to a vertex that dv does not hold ends
\* the call with an exception: "no vertex".
RECURSIVE analyzeEdges(_, _, _, _, _)
analyzeEdges(m, T, v, es, i) ==
    IF i > Len(es) THEN [T |-> T, out |-> "ok"]
    ELSE Let(es[i].toVertex,
             LAMBDA to :
               IF to \notin DOMAIN T.dv THEN [T |-> T, out |-> "no vertex"]
               ELSE IF T.dv[to] > T.dv[v] + edgeWeightFunc(edgeInfo(m, v, to).ret)
               THEN analyzeEdges(
                      m,
                      [T EXCEPT
                         !.dv[to] = T.dv[v] + edgeWeightFunc(edgeInfo(m, v, to).ret),
                         !.pv[to] = v,
                         !.pq = Append(@, <<T.dv[v] + edgeWeightFunc(
                                               edgeInfo(m, v, to).ret), to>>)],
                      v, es, i + 1)
               ELSE analyzeEdges(m, T, v, es, i + 1))

\* ---- analyzePaths: the while loop.  kv[v] puts v into kv when it is not
\* there, and map.at(v) throws std::out_of_range when v is no vertex.
RECURSIVE analyzePaths(_, _)
analyzePaths(m, T) ==
    IF T.pq = <<>> THEN [T |-> T, out |-> "ok"]
    ELSE Let(top(T.pq)[2],
             LAMBDA v :
               IF v \notin DOMAIN m THEN [T |-> T, out |-> "out_of_range"]
               ELSE Let(analyzeEdges(
                          m, [T EXCEPT !.pq = pop(T.pq), !.kv[v] = TRUE],
                          v, m[v].edges, 1),
                        LAMBDA r :
                          IF r.out # "ok" THEN r ELSE analyzePaths(m, r.T)))

\* ---- findShortestPaths(startVertex, edgeWeightFunc): the outcomes of the
\* call.  At an edge to a vertex that does not exist, dv.at throws
\* std::out_of_range and edgeInfo throws DigraphException: they are operands
\* of one >, and which is evaluated first is unspecified.
findShortestPaths(m, startVertex) ==
    Let(analyzePaths(m, setUp(m, startVertex) @@ [pq |-> <<<<0, startVertex>>>>]),
        LAMBDA r :
          IF r.out = "no vertex"
          THEN {[out |-> "out_of_range", ret |-> EmptyMap],
                [out |-> "DigraphException", ret |-> EmptyMap]}
          ELSE IF r.out # "ok" THEN {[out |-> r.out, ret |-> EmptyMap]}
          ELSE {[out |-> "ok", ret |-> r.T.pv]})

\* The record of a call on the Digraph.
GraphCall(op, fromVertex, toVertex, out, ret) ==
    [op |-> op, fromVertex |-> fromVertex, toVertex |-> toVertex,
     out |-> out, ret |-> ret]

\* A Digraph has been default-constructed; no SkipListSet has.
InitDigraph ==
    /\ nodes = Unbuilt.nodes
    /\ lnodes = Unbuilt.lnodes
    /\ head = Unbuilt.head
    /\ tail = Unbuilt.tail
    /\ elements = Unbuilt.elements
    /\ live = [s \in Sets |-> FALSE]
    /\ status = "run"
    /\ added = [s \in Sets |-> {}]
    /\ ops = 0
    /\ map = EmptyMap
    /\ dnodes = NoHeap
    /\ dll = NoList
    /\ it = NoIterator
    /\ hashset = NoHashSet
    /\ hadded = {}
    /\ last = GraphCall("Digraph", 0, 0, "ok", 0)

\* What a call on the Digraph leaves of everything that is not the Digraph.
GraphFrame ==
    UNCHANGED <<nodes, lnodes, head, tail, elements, live, added,
                dnodes, dll, it, hashset, hadded>>

AddVertex(vertex, vinfo) ==
    /\ status = "run"
    /\ \E r \in {addVertex(map, vertex, vinfo)} :
           /\ map' = r.map
           /\ last' = GraphCall("addVertex", vertex, 0, r.out, 0)
    /\ status' = "run"
    /\ GraphFrame

AddEdge(fromVertex, toVertex, einfo) ==
    /\ status = "run"
    /\ \E r \in {addEdge(map, fromVertex, toVertex, einfo)} :
           /\ map' = r.map
           /\ last' = GraphCall("addEdge", fromVertex, toVertex, r.out, 0)
    /\ status' = "run"
    /\ GraphFrame

RemoveVertex(vertex) ==
    /\ status = "run"
    /\ \E r \in removeVertex(map, vertex) :
           /\ map' = r.map
           /\ last' = GraphCall("removeVertex", vertex, 0, r.out, 0)
           /\ status' = IF r.out = "fault" THEN "fault" ELSE "run"
    /\ GraphFrame

EdgeCount(vertex) ==
    /\ status = "run"
    /\ \E r \in {edgeCount(map, vertex)} :
           last' = GraphCall("edgeCount", vertex, 0, r.out, r.ret)
    /\ UNCHANGED <<map, status>>
    /\ GraphFrame

FindShortestPaths(startVertex) ==
    /\ status = "run"
    /\ \E r \in findShortestPaths(map, startVertex) :
           last' = GraphCall("findShortestPaths", startVertex, 0, r.out, r.ret)
    /\ UNCHANGED <<map, status>>
    /\ GraphFrame

IsStronglyConnected ==
    /\ status = "run"
    /\ \E r \in {isStronglyConnected(map)} :
           last' = GraphCall("isStronglyConnected", 0, 0, r.out, r.ret)
    /\ UNCHANGED <<map, status>>
    /\ GraphFrame

\* ---- specifications
\* One more member function is called, within the bound.
Called == ops < MaxOps /\ ops' = ops + 1
CalledFail == ops < MaxFailOps /\ ops' = ops + 1

\* Adds on one set, every allocation succeeding.
NextAdd ==
    \E s \in Sets, element \in Elems, answers \in 0..MaxPromote :
        Add(s, element, answers) /\ UNCHANGED ops

SpecAdd == Init /\ [][NextAdd]_vars

\* Adds on one set, any allocation failing.
NextAddFail ==
    \/ \E s \in Sets, element \in Elems, answers \in 0..MaxPromote :
          CalledFail /\ Add(s, element, answers)
    \/ \E s \in Sets, element \in Elems, answers \in 0..MaxPromote,
          f \in 1..MaxCreations :
          CalledFail /\ AddFail(s, element, answers, f)

SpecAddFail == Init /\ [][NextAddFail]_vars

\* Two sets: adds on either and copies between them, any allocation of a
\* copy failing.
CalledCopyFail == ops < MaxCopyFailOps /\ ops' = ops + 1

NextCopyFail ==
    \/ \E s \in Sets, element \in Elems, answers \in 0..MaxPromote :
          CalledCopyFail /\ Add(s, element, answers)
    \/ \E d \in Sets, src \in Sets : CalledCopyFail /\ CopyConstruct(d, src)
    \/ \E d \in Sets, src \in Sets : CalledCopyFail /\ CopyAssign(d, src)
    \/ \E d \in Sets, src \in Sets, f \in 1..MaxCopyCreations :
          \E u \in IndeterminateLNode(Mem) :
              CalledCopyFail /\ CopyConstructFail(d, src, f, u)
    \/ \E d \in Sets, src \in Sets, f \in 1..MaxCopyCreations :
          CalledCopyFail /\ CopyAssignFail(d, src, f)

SpecCopyFail == Init /\ [][NextCopyFail]_vars

\* Two sets: adds on either, any allocation failing, moves between them,
\* and the const member functions called on either.
CalledConst == ops < MaxConstOps /\ ops' = ops + 1

NextConst ==
    \/ \E s \in Sets, element \in Elems, answers \in 0..MaxPromote :
          CalledConst /\ Add(s, element, answers)
    \/ \E s \in Sets, element \in Elems, answers \in 0..MaxPromote,
          f \in 1..MaxCreations :
          CalledConst /\ AddFail(s, element, answers, f)
    \/ \E d \in Sets, src \in Sets : CalledConst /\ MoveConstruct(d, src)
    \/ \E d \in Sets, src \in Sets : CalledConst /\ MoveAssign(d, src)
    \/ \E s \in Sets, element \in Elems : CalledConst /\ Contains(s, element)
    \/ \E s \in Sets : CalledConst /\ Size(s)
    \/ \E s \in Sets : CalledConst /\ LevelCount(s)
    \/ \E s \in Sets, level \in Levels :
          CalledConst /\ ElementsOnLevel(s, level)
    \/ \E s \in Sets, element \in Elems, level \in Levels :
          CalledConst /\ IsElementOnLevel(s, element, level)

SpecConst == Init /\ [][NextConst]_vars

\* Adds of distinct or repeated elements, the level tester always
\* answering false.
NextNeverPromote ==
    \E s \in Sets, element \in TesterElems :
        /\ Cardinality(added[s]) < MaxTesterAdds
        /\ Add(s, element, 0)
        /\ UNCHANGED ops

SpecNeverPromote == Init /\ [][NextNeverPromote]_vars

\* Adds, the level tester answering true once and then false in each.
NextPromoteOnce ==
    \E s \in Sets, element \in TesterElems :
        /\ Cardinality(added[s]) < MaxTesterAdds
        /\ Add(s, element, 1)
        /\ UNCHANGED ops

SpecPromoteOnce == Init /\ [][NextPromoteOnce]_vars

\* Keys compared with each other.
NextKey == CompareKeys

SpecKey == InitKey /\ [][NextKey]_vars

\* One Digraph: vertices and edges added, vertices removed, and the graph
\* asked whether it is strongly connected.
CalledGraph == ops < MaxGraphOps /\ ops' = ops + 1

NextDigraph ==
    \/ \E vertex \in Vertices : CalledGraph /\ AddVertex(vertex, 0)
    \/ \E fromVertex \in Vertices, toVertex \in Vertices, einfo \in EdgeInfos :
          CalledGraph /\ AddEdge(fromVertex, toVertex, einfo)
    \/ \E vertex \in Vertices : CalledGraph /\ RemoveVertex(vertex)
    \/ CalledGraph /\ IsStronglyConnected
    \/ \E vertex \in Vertices : CalledGraph /\ EdgeCount(vertex)

SpecDigraph == InitDigraph /\ [][NextDigraph]_vars

\* One Digraph: vertices added, edges added whose weight is 0, small, or the
\* distance of an unreached vertex, and shortest paths asked for.
Weights == (0..MaxEdgeInfo) \cup {Unreached}

CalledPaths == ops < MaxPathOps /\ ops' = ops + 1

NextPaths ==
    \/ \E vertex \in Vertices : CalledPaths /\ AddVertex(vertex, 0)
    \/ \E fromVertex \in Vertices, toVertex \in Vertices, einfo \in Weights :
          CalledPaths /\ AddEdge(fromVertex, toVertex, einfo)
    \/ \E startVertex \in Vertices :
          CalledPaths /\ FindShortestPaths(startVertex)

SpecPaths == InitDigraph /\ [][NextPaths]_vars

\* Two sets: adds on either, copies and moves between them.
Next ==
    \/ \E s \in Sets, element \in Elems, answers \in 0..MaxPromote :
          Called /\ Add(s, element, answers)
    \/ \E d \in Sets, src \in Sets : Called /\ CopyConstruct(d, src)
    \/ \E d \in Sets, src \in Sets : Called /\ MoveConstruct(d, src)
    \/ \E d \in Sets, src \in Sets : Called /\ CopyAssign(d, src)
    \/ \E d \in Sets, src \in Sets : Called /\ MoveAssign(d, src)

Spec == Init /\ [][Next]_vars

\* ---------------------------------------------------- DoublyLinkedList
\* One DoublyLinkedList<int> and one Iterator made from it.  A function takes
\* the objects as one value L and gives what the call leaves of them, how it
\* ended ("ok", the exception thrown, or "fault" where a pointer that is null
\* or deleted is dereferenced or deleted again, or a walk along next does
\* not end) and what it returned.
ListValues == 1..MaxValue

DNode(value, prev, next) == [value |-> value, prev |-> prev, next |-> next]

ListMem == [dnodes |-> dnodes, dll |-> dll, it |-> it]

ListResult(L, out, ret) == [L |-> L, out |-> out, ret |-> ret]

\* p is nullptr or points to a Node that has been deleted.
Dangling(L, p) == p \notin DOMAIN L.dnodes

\* The Nodes from p along next, and whether the walk ends at nullptr.
RECURSIVE DChain(_, _, _)
DChain(heap, p, seen) ==
    IF p = NULL THEN [nodes |-> seen, ends |-> TRUE]
    ELSE IF p \notin DOMAIN heap \/ p \in Range(seen)
    THEN [nodes |-> seen, ends |-> FALSE]
    ELSE DChain(heap, heap[p].next, Append(seen, p))

\* ---- addToStart(value)
addToStart(L, value) ==
    Let(NewAddr(L.dnodes),
        LAMBDA new_node :
          IF L.dll.head # NULL /\ Dangling(L, L.dll.head)
          THEN ListResult(L, "fault", 0)
          ELSE ListResult(
                 [L EXCEPT
                    !.dnodes = (new_node :> DNode(value, NULL, L.dll.head))
                               @@ (IF L.dll.head # NULL
                                   THEN [@ EXCEPT ![L.dll.head].prev = new_node]
                                   ELSE @),
                    !.dll = [head |-> new_node,
                             tail |-> IF @.tail = NULL THEN new_node ELSE @.tail]],
                 "ok", 0))

\* ---- addToEnd(value)
addToEnd(L, value) ==
    Let(NewAddr(L.dnodes),
        LAMBDA new_node :
          IF L.dll.tail # NULL /\ Dangling(L, L.dll.tail)
          THEN ListResult(L, "fault", 0)
          ELSE ListResult(
                 [L EXCEPT
                    !.dnodes = (new_node :> DNode(value, L.dll.tail, NULL))
                               @@ (IF L.dll.tail # NULL
                                   THEN [@ EXCEPT ![L.dll.tail].next = new_node]
                                   ELSE @),
                    !.dll = [head |-> IF @.head = NULL THEN new_node ELSE @.head,
                             tail |-> new_node]],
                 "ok", 0))

\* delete p, for a p that is not nullptr and has not been deleted.
DeleteNode(heap, p) == [a \in (DOMAIN heap) \ {p} |-> heap[a]]

\* ---- removeFromStart()
removeFromStart(L) ==
    IF L.dll.head = NULL /\ L.dll.tail = NULL
    THEN ListResult(L, "EmptyException", 0)
    ELSE IF Dangling(L, L.dll.head) THEN ListResult(L, "fault", 0)
    ELSE IF L.dll.head = L.dll.tail
    THEN ListResult([L EXCEPT !.dnodes = DeleteNode(@, L.dll.head),
                              !.dll = [head |-> NULL, tail |-> NULL]], "ok", 0)
    ELSE Let(L.dnodes[L.dll.head].next,
             LAMBDA h :
               IF Dangling(L, h) THEN ListResult(L, "fault", 0)
               ELSE IF L.dnodes[h].prev = NULL
               THEN ListResult([L EXCEPT !.dll.head = h], "ok", 0)
               ELSE IF Dangling(L, L.dnodes[h].prev) \/ L.dnodes[h].prev = h
               THEN ListResult(L, "fault", 0)
               ELSE ListResult(
                      [L EXCEPT !.dnodes = [DeleteNode(@, L.dnodes[h].prev)
                                              EXCEPT ![h].prev = NULL],
                                !.dll.head = h], "ok", 0))

\* ---- removeFromEnd()
removeFromEnd(L) ==
    IF L.dll.head = NULL /\ L.dll.tail = NULL
    THEN ListResult(L, "EmptyException", 0)
    ELSE IF L.dll.head = L.dll.tail
    THEN IF Dangling(L, L.dll.head) THEN ListResult(L, "fault", 0)
         ELSE ListResult([L EXCEPT !.dnodes = DeleteNode(@, L.dll.head),
                                   !.dll = [head |-> NULL, tail |-> NULL]],
                         "ok", 0)
    ELSE IF Dangling(L, L.dll.tail) THEN ListResult(L, "fault", 0)
    ELSE Let(L.dnodes[L.dll.tail].prev,
             LAMBDA t :
               IF Dangling(L, t) THEN ListResult(L, "fault", 0)
               ELSE IF L.dnodes[t].next = NULL
               THEN ListResult([L EXCEPT !.dll.tail = t], "ok", 0)
               ELSE IF Dangling(L, L.dnodes[t].next) \/ L.dnodes[t].next = t
               THEN ListResult(L, "fault", 0)
               ELSE ListResult(
                      [L EXCEPT !.dnodes = [DeleteNode(@, L.dnodes[t].next)
                                              EXCEPT ![t].next = NULL],
                                !.dll.tail = t], "ok", 0))

\* ---- first()
first(L) ==
    IF L.dll.head = NULL /\ L.dll.tail = NULL
    THEN ListResult(L, "EmptyException", 0)
    ELSE IF Dangling(L, L.dll.head) THEN ListResult(L, "fault", 0)
    ELSE ListResult(L, "ok", L.dnodes[L.dll.head].value)

\* ---- last()
lastOf(L) ==
    IF L.dll.head = NULL /\ L.dll.tail = NULL
    THEN ListResult(L, "EmptyException", 0)
    ELSE IF Dangling(L, L.dll.tail) THEN ListResult(L, "fault", 0)
    ELSE ListResult(L, "ok", L.dnodes[L.dll.tail].value)

\* ---- size(), of the list whose head member is h: the walk along next.
listSize(L, h) ==
    Let(DChain(L.dnodes, h, <<>>),
        LAMBDA c : IF c.ends THEN [out |-> "ok", ret |-> Len(c.nodes)]
                   ELSE [out |-> "fault", ret |-> 0])

\* ---- copyList(list, temp_head, temp_tail), of the Nodes src in order into
\* Nodes that are new: the i-th new Node is at address new[i].
RECURSIVE FreshAddrs(_, _)
FreshAddrs(heap, n) ==
    IF n = 0 THEN <<>>
    ELSE Let(NewAddr(heap),
             LAMBDA a : <<a>> \o FreshAddrs((a :> 0) @@ heap, n - 1))

copyList(L, src) ==
    Let(FreshAddrs(L.dnodes, Len(src)),
        LAMBDA new :
          [dnodes |-> [i \in Range(new) |->
                         LET k == CHOOSE k \in 1..Len(new) : new[k] = i
                         IN  DNode(L.dnodes[src[k]].value,
                                   IF k = 1 THEN NULL ELSE new[k - 1],
                                   IF k = Len(new) THEN NULL ELSE new[k + 1])]
                      @@ L.dnodes,
           head |-> IF new = <<>> THEN NULL ELSE new[1],
           tail |-> IF new = <<>> THEN NULL ELSE new[Len(new)]])

\* ---- iterator(): Iterator::Iterator(list), IteratorBase::IteratorBase(list)
\* with clist(list), the copy constructor of DoublyLinkedList.
iterator(L) ==
    Let(DChain(L.dnodes, L.dll.head, <<>>),
        LAMBDA c :
          IF ~c.ends THEN ListResult(L, "fault", 0)
          ELSE Let(copyList(L, c.nodes),
                   LAMBDA r :
                     ListResult(
                       [L EXCEPT
                          !.dnodes = r.dnodes,
                          !.it = [made |-> TRUE,
                                  current |-> L.dll.head,
                                  pastStart |-> (L.dll.head = NULL
                                                 /\ L.dll.tail = NULL),
                                  pastEnd |-> (L.dll.head = NULL
                                               /\ L.dll.tail = NULL),
                                  clist |-> [head |-> r.head, tail |-> r.tail]]],
                       "ok", 0)))

\* if (current == nullptr) pastEnd = true, at the end of moveToNext
EndOfMoveToNext(L) ==
    ListResult(IF L.it.current = NULL THEN [L EXCEPT !.it.pastEnd = TRUE] ELSE L,
               "ok", 0)

\* A moveToNext without its check of pastEnd.
moveToNextUnchecked(L) ==
    IF L.it.pastStart /\ listSize(L, L.it.clist.head).out = "fault"
    THEN ListResult(L, "fault", 0)
    ELSE IF L.it.pastStart /\ listSize(L, L.it.clist.head).ret # 0
    THEN EndOfMoveToNext([L EXCEPT !.it.current = L.it.clist.head,
                                   !.it.pastStart = FALSE])
    ELSE IF Dangling(L, L.it.current) THEN ListResult(L, "fault", 0)
    ELSE EndOfMoveToNext([L EXCEPT !.it.current = L.dnodes[L.it.current].next])

\* ---- moveToNext()
moveToNext(L) ==
    IF L.it.pastEnd THEN ListResult(L, "IteratorException", 0)
    ELSE IF L.it.pastStart /\ listSize(L, L.it.clist.head).out = "fault"
    THEN ListResult(L, "fault", 0)
    ELSE IF L.it.pastStart /\ listSize(L, L.it.clist.head).ret # 0
    THEN EndOfMoveToNext([L EXCEPT !.it.current = L.it.clist.head,
                                   !.it.pastStart = FALSE])
    ELSE IF Dangling(L, L.it.current) THEN ListResult(L, "fault", 0)
    ELSE EndOfMoveToNext([L EXCEPT !.it.current = L.dnodes[L.it.current].next])

\* if (current == nullptr) pastStart = true, at the end of moveToPrevious
EndOfMoveToPrevious(L) ==
    ListResult(IF L.it.current = NULL THEN [L EXCEPT !.it.pastStart = TRUE] ELSE L,
               "ok", 0)

\* ---- moveToPrevious()
moveToPrevious(L) ==
    IF L.it.pastStart THEN ListResult(L, "IteratorException", 0)
    ELSE IF L.it.pastEnd /\ listSize(L, L.it.clist.head).out = "fault"
    THEN ListResult(L, "fault", 0)
    ELSE IF L.it.pastEnd /\ listSize(L, L.it.clist.head).ret # 0
    THEN EndOfMoveToPrevious([L EXCEPT !.it.current = L.it.clist.tail,
                                       !.it.pastEnd = FALSE])
    ELSE IF Dangling(L, L.it.current) THEN ListResult(L, "fault", 0)
    ELSE EndOfMoveToPrevious(
           [L EXCEPT !.it.current = L.dnodes[L.it.current].prev])

\* ---- Iterator::value()
iteratorValue(L) ==
    IF L.it.pastStart \/ L.it.pastEnd THEN ListResult(L, "IteratorException", 0)
    ELSE IF Dangling(L, L.it.current) THEN ListResult(L, "fault", 0)
    ELSE ListResult(L, "ok", L.dnodes[L.it.current].value)

\* ---- Iterator::value() = v: the caller writes through the ValueType& that
\* value() returns.
valueAssign(L, v) ==
    IF iteratorValue(L).out # "ok" THEN iteratorValue(L)
    ELSE ListResult([L EXCEPT !.dnodes[L.it.current].value = v], "ok", v)

\* ---- insertBefore(value).  The new Node is made before the position is
\* looked at, and stays in the heap when the call throws.
insertBefore(L, value) ==
    Let(NewAddr(L.dnodes),
        LAMBDA new_node :
          Let([L EXCEPT !.dnodes = (new_node :> DNode(value, NULL, NULL)) @@ @],
              LAMBDA A :
                IF A.it.pastStart THEN ListResult(A, "IteratorException", 0)
                ELSE IF A.it.pastEnd
                THEN IF Dangling(A, A.dll.tail) THEN ListResult(A, "fault", 0)
                     ELSE ListResult(
                            [A EXCEPT
                               !.dnodes[new_node] =
                                   DNode(value, A.dll.tail, A.it.current),
                               !.dnodes[A.dll.tail].next = new_node,
                               !.dll.tail = new_node], "ok", 0)
                ELSE IF Dangling(A, A.it.current) THEN ListResult(A, "fault", 0)
                ELSE IF A.dnodes[A.it.current].prev = NULL
                THEN ListResult(
                       [A EXCEPT
                          !.dll.head = new_node,
                          !.dnodes[new_node] = DNode(value, NULL, A.it.current),
                          !.dnodes[A.it.current].prev = new_node], "ok", 0)
                ELSE IF Dangling(A, A.dnodes[A.it.current].prev)
                THEN ListResult(A, "fault", 0)
                ELSE ListResult(
                       [A EXCEPT
                          !.dnodes[new_node] =
                              DNode(value, A.dnodes[A.it.current].prev,
                                    A.it.current),
                          !.dnodes[A.dnodes[A.it.current].prev].next = new_node,
                          !.dnodes[A.it.current].prev = new_node], "ok", 0)))

\* ---- insertAfter(value)
insertAfter(L, value) ==
    Let(NewAddr(L.dnodes),
        LAMBDA new_node :
          Let([L EXCEPT !.dnodes = (new_node :> DNode(value, NULL, NULL)) @@ @],
              LAMBDA A :
                IF A.it.pastEnd THEN ListResult(A, "IteratorException", 0)
                ELSE IF A.it.pastStart
                THEN IF Dangling(A, A.dll.head) THEN ListResult(A, "fault", 0)
                     ELSE ListResult(
                            [A EXCEPT
                               !.dnodes[new_node] =
                                   DNode(value, A.it.current, A.dll.head),
                               !.dnodes[A.dll.head].prev = new_node,
                               !.dll.head = new_node], "ok", 0)
                ELSE IF Dangling(A, A.it.current) THEN ListResult(A, "fault", 0)
                ELSE IF A.dnodes[A.it.current].next = NULL
                THEN ListResult(
                       [A EXCEPT
                          !.dll.tail = new_node,
                          !.dnodes[new_node] = DNode(value, A.it.current, NULL),
                          !.dnodes[A.it.current].next = new_node], "ok", 0)
                ELSE IF Dangling(A, A.dnodes[A.it.current].next)
                THEN ListResult(A, "fault", 0)
                ELSE ListResult(
                       [A EXCEPT
                          !.dnodes[new_node] =
                              DNode(value, A.it.current,
                                    A.dnodes[A.it.current].next),
                          !.dnodes[A.dnodes[A.it.current].next].prev = new_node,
                          !.dnodes[A.it.current].next = new_node], "ok", 0)))

\* ---- remove(moveToNextAfterward): the branch current == ilist.head
removeAtHead(L, moveToNextAfterward) ==
    Let(L.dnodes[L.it.current].next,
        LAMBDA next :
          IF next # NULL /\ (Dangling(L, next) \/ next = L.it.current)
          THEN ListResult(L, "fault", 0)
          ELSE ListResult(
                 [L EXCEPT
                    !.dnodes = DeleteNode(
                                 IF next # NULL THEN [@ EXCEPT ![next].prev = NULL]
                                 ELSE @,
                                 L.it.current),
                    !.dll = [head |-> next,
                             tail |-> IF next # NULL THEN @.tail ELSE NULL],
                    !.it = [@ EXCEPT
                              !.current = next,
                              !.pastEnd = IF next # NULL THEN @ ELSE TRUE,
                              !.pastStart = IF moveToNextAfterward THEN @
                                            ELSE TRUE]],
                 "ok", 0))

\* ---- remove(moveToNextAfterward): the branch current == ilist.tail
removeAtTail(L, moveToNextAfterward) ==
    Let(L.dnodes[L.it.current].prev,
        LAMBDA prev :
          IF prev # NULL /\ (Dangling(L, prev) \/ prev = L.it.current)
          THEN ListResult(L, "fault", 0)
          ELSE ListResult(
                 [L EXCEPT
                    !.dnodes = DeleteNode(
                                 IF prev # NULL THEN [@ EXCEPT ![prev].next = NULL]
                                 ELSE @,
                                 L.it.current),
                    !.dll = [head |-> IF prev # NULL THEN @.head ELSE NULL,
                             tail |-> prev],
                    !.it = [@ EXCEPT
                              !.current = IF prev # NULL THEN L.dll.head
                                          ELSE NULL,
                              !.pastStart = IF prev # NULL THEN @ ELSE TRUE,
                              !.pastEnd = IF moveToNextAfterward THEN TRUE
                                          ELSE @]],
                 "ok", 0))

\* ---- remove(moveToNextAfterward): the last two branches
removeInside(L, moveToNextAfterward) ==
    Let(L.dnodes[L.it.current],
        LAMBDA temp :
          IF \/ Dangling(L, temp.prev) \/ Dangling(L, temp.next)
             \/ temp.prev = L.it.current \/ temp.next = L.it.current
          THEN ListResult(L, "fault", 0)
          ELSE ListResult(
                 [L EXCEPT
                    !.dnodes = DeleteNode(
                                 [[@ EXCEPT ![temp.prev].next = temp.next]
                                     EXCEPT ![temp.next].prev = temp.prev],
                                 L.it.current),
                    !.it.current = IF moveToNextAfterward THEN temp.next
                                   ELSE temp.prev],
                 "ok", 0))

\* ---- remove(moveToNextAfterward)
remove(L, moveToNextAfterward) ==
    IF L.it.pastEnd \/ L.it.pastStart THEN ListResult(L, "IteratorException", 0)
    ELSE IF L.it.current = L.dll.head
    THEN IF Dangling(L, L.it.current) THEN ListResult(L, "fault", 0)
         ELSE removeAtHead(L, moveToNextAfterward)
    ELSE IF L.it.current = L.dll.tail
    THEN IF Dangling(L, L.it.current) THEN ListResult(L, "fault", 0)
         ELSE removeAtTail(L, moveToNextAfterward)
    ELSE IF Dangling(L, L.it.current) THEN ListResult(L, "fault", 0)
    ELSE removeInside(L, moveToNextAfterward)

\* The record of a call on the DoublyLinkedList or on its Iterator.
ListCall(op, v, flag, out, ret) ==
    [op |-> op, value |-> v, flag |-> flag, out |-> out, ret |-> ret]

\* A DoublyLinkedList has been default-constructed, and no Iterator yet.
InitList ==
    /\ nodes = Unbuilt.nodes
    /\ lnodes = Unbuilt.lnodes
    /\ head = Unbuilt.head
    /\ tail = Unbuilt.tail
    /\ elements = Unbuilt.elements
    /\ live = [s \in Sets |-> FALSE]
    /\ status = "run"
    /\ added = [s \in Sets |-> {}]
    /\ ops = 0
    /\ map = EmptyMap
    /\ dnodes = NoHeap
    /\ dll = [head |-> NULL, tail |-> NULL]
    /\ it = NoIterator
    /\ hashset = NoHashSet
    /\ hadded = {}
    /\ last = ListCall("DoublyLinkedList", 0, FALSE, "ok", 0)

\* What a call on the list or on its iterator leaves of everything else.
ListFrame ==
    UNCHANGED <<nodes, lnodes, head, tail, elements, live, added, map, hashset, hadded>>

\* The call r of op has ended: what it leaves, and the record of it.
ListDone(op, v, flag, r) ==
    /\ dnodes' = r.L.dnodes
    /\ dll' = r.L.dll
    /\ it' = r.L.it
    /\ status' = IF r.out = "fault" THEN "fault" ELSE "run"
    /\ last' = ListCall(op, v, flag, r.out, r.ret)
    /\ ListFrame

AddToStart(v) ==
    /\ status = "run"
    /\ \E r \in {addToStart(ListMem, v)} : ListDone("addToStart", v, FALSE, r)

AddToEnd(v) ==
    /\ status = "run"
    /\ \E r \in {addToEnd(ListMem, v)} : ListDone("addToEnd", v, FALSE, r)

RemoveFromStart ==
    /\ status = "run"
    /\ \E r \in {removeFromStart(ListMem)} :
           ListDone("removeFromStart", 0, FALSE, r)

RemoveFromEnd ==
    /\ status = "run"
    /\ \E r \in {removeFromEnd(ListMem)} : ListDone("removeFromEnd", 0, FALSE, r)

First ==
    /\ status = "run"
    /\ \E r \in {first(ListMem)} : ListDone("first", 0, FALSE, r)

Last ==
    /\ status = "run"
    /\ \E r \in {lastOf(ListMem)} : ListDone("last", 0, FALSE, r)

\* One Iterator is made, by iterator(), and lives on.
MakeIterator ==
    /\ status = "run"
    /\ ~it.made
    /\ \E r \in {iterator(ListMem)} : ListDone("iterator", 0, FALSE, r)

MoveToNext ==
    /\ status = "run"
    /\ it.made
    /\ \E r \in {moveToNext(ListMem)} : ListDone("moveToNext", 0, FALSE, r)

MoveToPrevious ==
    /\ status = "run"
    /\ it.made
    /\ \E r \in {moveToPrevious(ListMem)} :
           ListDone("moveToPrevious", 0, FALSE, r)

Value ==
    /\ status = "run"
    /\ it.made
    /\ \E r \in {iteratorValue(ListMem)} : ListDone("value", 0, FALSE, r)

ValueAssign(v) ==
    /\ status = "run"
    /\ it.made
    /\ \E r \in {valueAssign(ListMem, v)} : ListDone("valueAssign", v, FALSE, r)

InsertBefore(v) ==
    /\ status = "run"
    /\ it.made
    /\ \E r \in {insertBefore(ListMem, v)} : ListDone("insertBefore", v, FALSE, r)

InsertAfter(v) ==
    /\ status = "run"
    /\ it.made
    /\ \E r \in {insertAfter(ListMem, v)} : ListDone("insertAfter", v, FALSE, r)

Remove(moveToNextAfterward) ==
    /\ status = "run"
    /\ it.made
    /\ \E r \in {remove(ListMem, moveToNextAfterward)} :
           ListDone("remove", 0, moveToNextAfterward, r)

CalledList == ops < MaxListOps /\ ops' = ops + 1

NextList ==
    \/ \E v \in ListValues : CalledList /\ AddToStart(v)
    \/ \E v \in ListValues : CalledList /\ AddToEnd(v)
    \/ CalledList /\ RemoveFromStart
    \/ CalledList /\ RemoveFromEnd
    \/ CalledList /\ First
    \/ CalledList /\ Last
    \/ CalledList /\ MakeIterator
    \/ CalledList /\ MoveToNext
    \/ CalledList /\ MoveToPrevious
    \/ CalledList /\ Value
    \/ \E v \in ListValues : CalledList /\ ValueAssign(v)
    \/ \E v \in ListValues : CalledList /\ InsertBefore(v)
    \/ \E v \in ListValues : CalledList /\ InsertAfter(v)
    \/ \E moveToNextAfterward \in BOOLEAN :
          CalledList /\ Remove(moveToNextAfterward)

SpecList == InitList /\ [][NextList]_vars

\* -------------------------------------------------------------- HashSet
\* One HashSet<int>.  The set member, an array of capacity pointers to linked
\* lists, is a function from 0..capacity-1 to the sequence of the values of
\* the list at that index, the first Node first.
DEFAULT_CAPACITY == 10

HashElems == 1..MaxHashElem

\* The hash functions a HashSet is constructed with: one with no two elements
\* at one index, one that changes the index of elements when the capacity
\* doubles, and one that puts many elements at one index.
HashFunctions == {"identity", "tripled", "thirds"}

hashFunction(name, element) ==
    CASE name = "identity" -> element
      [] name = "tripled" -> 3 * element
      [] name = "thirds" -> element % 3

\* ---- HashSet(hashFunction)
HashSetOf(name) ==
    [hashFunction |-> name, stored |-> 0, capacity |-> DEFAULT_CAPACITY,
     set |-> [i \in 0..(DEFAULT_CAPACITY - 1) |-> <<>>]]

\* ---- contains(element)
hashContains(H, element) ==
    element \in Range(H.set[hashFunction(H.hashFunction, element) % H.capacity])

\* ---- size()
hashSize(H) == H.stored

\* ---- elementsAtIndex(index)
elementsAtIndex(H, index) ==
    IF index < 0 \/ index >= H.capacity THEN 0 ELSE Len(H.set[index])

\* ---- isElementAtIndex(element, index)
isElementAtIndex(H, element, index) ==
    IF index < 0 \/ index >= H.capacity THEN FALSE
    ELSE hashFunction(H.hashFunction, element) % H.capacity = index

\* ---- copy(dest, src, cap, newcap, func): the values vs of one list of src,
\* from the k-th, are put each at the front of its list of dest.
RECURSIVE copyChain(_, _, _, _, _)
copyChain(dest, vs, k, newcap, func) ==
    IF k > Len(vs) THEN dest
    ELSE copyChain(
           [dest EXCEPT ![hashFunction(func, vs[k]) % newcap] = <<vs[k]>> \o @],
           vs, k + 1, newcap, func)

\* A copy that puts every value at the index it had in src.
RECURSIVE copyKeepingIndex(_, _, _, _, _, _)
copyKeepingIndex(dest, src, i, cap, newcap, func) ==
    IF i >= cap THEN dest
    ELSE copyKeepingIndex(copyChain(dest, src[i], 1, cap, func),
                          src, i + 1, cap, newcap, func)

\* ---- copy(dest, src, cap, newcap, func): the lists of src from index i
RECURSIVE copy(_, _, _, _, _, _)
copy(dest, src, i, cap, newcap, func) ==
    IF i >= cap THEN dest
    ELSE copy(copyChain(dest, src[i], 1, newcap, func),
              src, i + 1, cap, newcap, func)

\* ---- add(element): the resizing.  stored and capacity are small, so that
\* (double)stored/(double)capacity >= 0.8 is 10 * stored >= 8 * capacity.
resize(H) ==
    IF 10 * H.stored >= 8 * H.capacity
    THEN [H EXCEPT
            !.set = copy([i \in 0..(2 * H.capacity - 1) |-> <<>>], H.set, 0,
                         H.capacity, 2 * H.capacity, H.hashFunction),
            !.capacity = 2 * H.capacity]
    ELSE H

\* An add that takes the index of the new element modulo DEFAULT_CAPACITY,
\* whatever the capacity is.
hashAddAtDefaultIndex(H, element) ==
    IF hashContains(H, element) THEN H
    ELSE resize([H EXCEPT
                   !.set[hashFunction(H.hashFunction, element)
                            % DEFAULT_CAPACITY] = <<element>> \o @,
                   !.stored = @ + 1])

\* ---- add(element)
hashAdd(H, element) ==
    IF hashContains(H, element) THEN H
    ELSE resize([H EXCEPT
                   !.set[hashFunction(H.hashFunction, element) % H.capacity] =
                       <<element>> \o @,
                   !.stored = @ + 1])

\* ---- operator=(const HashSet& s): the lists of s are copied into a new
\* array of s.capacity pointers, which takes the place of this set's.
hashCopyAssign(H, S) ==
    [hashFunction |-> S.hashFunction, stored |-> S.stored,
     capacity |-> S.capacity,
     set |-> copy([i \in 0..(S.capacity - 1) |-> <<>>], S.set, 0,
                  S.capacity, S.capacity, S.hashFunction)]

\* The record of a call on the HashSet.
HashCall(op, element, ret) == [op |-> op, element |-> element, ret |-> ret]

\* A HashSet has been constructed, with one of the hash functions.
InitHashSet ==
    /\ nodes = Unbuilt.nodes
    /\ lnodes = Unbuilt.lnodes
    /\ head = Unbuilt.head
    /\ tail = Unbuilt.tail
    /\ elements = Unbuilt.elements
    /\ live = [s \in Sets |-> FALSE]
    /\ status = "run"
    /\ added = [s \in Sets |-> {}]
    /\ ops = 0
    /\ map = EmptyMap
    /\ dnodes = NoHeap
    /\ dll = NoList
    /\ it = NoIterator
    /\ \E name \in HashFunctions : hashset = HashSetOf(name)
    /\ hadded = {}
    /\ last = HashCall("HashSet", 0, 0)

\* What a call on the HashSet leaves of everything else.
HashFrame ==
    UNCHANGED <<nodes, lnodes, head, tail, elements, live, added, map, dnodes,
                dll, it, status, ops>>

HashAdd(element) ==
    /\ status = "run"
    /\ hashset' = hashAdd(hashset, element)
    /\ hadded' = hadded \cup {element}
    /\ last' = HashCall("add", element, 0)
    /\ HashFrame

HashContains(element) ==
    /\ status = "run"
    /\ last' = HashCall("contains", element,
                        IF hashContains(hashset, element) THEN 1 ELSE 0)
    /\ UNCHANGED <<hashset, hadded>>
    /\ HashFrame

HashSize ==
    /\ status = "run"
    /\ last' = HashCall("size", 0, hashSize(hashset))
    /\ UNCHANGED <<hashset, hadded>>
    /\ HashFrame

\* ---- s = s: the set is assigned a copy of itself.
HashCopyAssign ==
    /\ status = "run"
    /\ hashset' = hashCopyAssign(hashset, hashset)
    /\ last' = HashCall("copyAssign", 0, 0)
    /\ UNCHANGED hadded
    /\ HashFrame

NextHashSet ==
    \/ \E element \in HashElems : HashAdd(element)
    \/ HashCopyAssign
    \/ \E element \in HashElems : HashContains(element)
    \/ HashSize

SpecHashSet == InitHashSet /\ [][NextHashSet]_vars

\* ------------------------------------------------------------ properties
\* What the public const member functions of set s answer.
Obs(M, s) ==
    [faults |-> Faults(M, s),
     size |-> size(M, s),
     levelCount |-> levelCount(M, s),
     onLevel |-> [L \in Levels |-> elementsOnLevel(M, s, L)],
     isOn |-> [e \in Elems |-> [L \in Levels |-> isElementOnLevel(M, s, e, L)]],
     contains |-> [e \in Elems |-> contains(M, s, e)]]

\* The addresses reachable from a set of Node addresses along next and below.
RECURSIVE Closure(_, _)
Closure(N, S) ==
    LET T == S \cup (({N[a].next : a \in S} \cup {N[a].below : a \in S}) \ {NULL})
    IN  IF T = S THEN S ELSE Closure(N, T)

ReachLevels(M, s) == Range(LevelsFrom(M.lnodes, M.head[s]))

ReachNodes(M, s) ==
    Closure(M.nodes,
            ({M.lnodes[l].next : l \in ReachLevels(M, s)} \cup {M.tail[s]}) \ {NULL})

\* The grid of set s: its members and every object reachable from them.
Grid(M, s) ==
    [head |-> M.head[s], tail |-> M.tail[s], elements |-> M.elements[s],
     lnodes |-> [l \in ReachLevels(M, s) |-> M.lnodes[l]],
     nodes |-> [a \in ReachNodes(M, s) |-> M.nodes[a]]]

\* The keys of level l of set s, left to right.
KeysOnLevel(M, l) ==
    LET ch == ChainFrom(M.nodes, M.lnodes[l].next)
    IN  [i \in 1..Len(ch) |-> M.nodes[ch[i]].value]

\* ---------------------------------------------------------------- C1
\* C1: after any sequence of add calls, for any answers of the level tester,
\* contains(e) is true for every element that was added and false for every
\* element that was not.
C1_ContainsExactlyAdded ==
    \A s \in Sets :
        live[s] => \A e \in Elems : contains(Mem, s, e) = (e \in added[s])

\* Two elements are in, one on the highest level, and one element is not.
C1_Witness ==
    /\ last.op = "add" /\ last.out = "ok"
    /\ Cardinality(added[1]) = 2
    /\ levelCount(Mem, 1) = MaxPromote + 1
    /\ \E e \in added[1] : contains(Mem, 1, e)
    /\ \E e \in Elems \ added[1] : ~contains(Mem, 1, e)

\* ---------------------------------------------------------------- C2
\* C2: add(e) on a set that already contains e is a no-op: the call returns
\* normally, the level tester is not asked, and size(), levelCount() and
\* elementsOnLevel(L) for every L are what they were.
C2_AddExistingIsNoOp ==
    [][\A s \in Sets, e \in Elems :
         (/\ last'.op = "add" /\ last'.dst = s /\ last'.element = e
          /\ contains(Mem, s, e))
         => (/\ last'.out = "ok"
             /\ last'.consulted = 0
             /\ size(Mem', s) = size(Mem, s)
             /\ levelCount(Mem', s) = levelCount(Mem, s)
             /\ \A L \in Levels :
                  elementsOnLevel(Mem', s, L) = elementsOnLevel(Mem, s, L))]_vars

\* ---------------------------------------------------------------- C3
\* C3: when an allocation fails anywhere inside add(e), the error propagates
\* and the set is exactly as it was before the call: the same size(),
\* levelCount(), elementsOnLevel(L) for every L and contains(x) for every x.
C3_FailedAddLeavesSetUnchanged ==
    [][(last'.op = "add" /\ last'.out = "throw")
       => Obs(Mem', last'.dst) = Obs(Mem, last'.dst)]_vars

\* ---------------------------------------------------------------- C4
\* C4: after move construction or move assignment the moved-from set is a
\* valid empty set: size() is 0 and equals elementsOnLevel(0), contains(e) is
\* false for every e, and levelCount(), contains and add find a grid.
C4_MovedFromIsValidEmpty ==
    (last.op \in {"moveConstruct", "moveAssign"} /\ last.dst # last.src)
    => (/\ ~Faults(Mem, last.src)
        /\ size(Mem, last.src) = 0
        /\ elementsOnLevel(Mem, last.src, 0) = size(Mem, last.src)
        /\ \A e \in Elems : ~contains(Mem, last.src, e))

\* ---------------------------------------------------------------- C5
\* C5: after move construction or move assignment from s into d, d answers
\* size(), levelCount(), elementsOnLevel(L), isElementOnLevel(e, L) and
\* contains(e) as s did before the move.
C5_MoveTransfersContents ==
    [][(last'.op \in {"moveConstruct", "moveAssign"})
       => Obs(Mem', last'.dst) = Obs(Mem, last'.src)]_vars

\* A set of two elements on two levels or more has been move-assigned into
\* the other set.
C5_Witness ==
    /\ last.op = "moveAssign" /\ last.dst # last.src
    /\ size(Mem, last.dst) = 2
    /\ levelCount(Mem, last.dst) >= 2
    /\ \E e \in Elems : isElementOnLevel(Mem, last.dst, e, 1)

\* ---------------------------------------------------------------- C6
\* C6: in every state reached by add calls, elementsOnLevel(0) == size().
C6_BottomLevelCountIsSize ==
    \A s \in Sets : live[s] => elementsOnLevel(Mem, s, 0) = size(Mem, s)

\* Every element has been added.
C6_Witness ==
    /\ last.op = "add" /\ last.out = "ok"
    /\ size(Mem, 1) = MaxElem
    /\ elementsOnLevel(Mem, 1, 0) = MaxElem

\* ---------------------------------------------------------------- C7
\* C7: tower property: for every level L > 0 and every element e,
\* isElementOnLevel(e, L) implies isElementOnLevel(e, L - 1).
C7_TowerProperty ==
    \A s \in Sets :
        live[s] =>
            \A L \in Levels \ {0}, e \in Elems :
                isElementOnLevel(Mem, s, e, L) => isElementOnLevel(Mem, s, e, L - 1)

\* An element was promoted into a level that another element had built, and
\* another element stays below it.
C7_Witness ==
    /\ last.op = "add" /\ last.out = "ok" /\ last.answers >= 1
    /\ elementsOnLevel(Mem, 1, 1) >= 2
    /\ isElementOnLevel(Mem, 1, last.element, 1)
    /\ \E e \in Elems :
          isElementOnLevel(Mem, 1, e, 0) /\ ~isElementOnLevel(Mem, 1, e, 1)

\* ---------------------------------------------------------------- C8
\* C8: sortedness: on every level the chain starts with the NegInf sentinel,
\* ends with the PosInf sentinel, and the keys between them are Normal and
\* strictly increasing.
C8_LevelsAreSorted ==
    \A s \in Sets :
        live[s] =>
            \A l \in ReachLevels(Mem, s) :
                LET k == KeysOnLevel(Mem, l)
                    n == Len(k)
                IN  /\ n >= 2
                    /\ k[1].kind = "NegInf"
                    /\ k[n].kind = "PosInf"
                    /\ \A i \in 2..(n - 1) : k[i].kind = "Normal"
                    /\ \A i \in 2..(n - 2) : k[i].element < k[i + 1].element

\* The last add put its element between two others on levels 0 and 1.
C8_Witness ==
    /\ last.op = "add" /\ last.out = "ok" /\ last.answers >= 1
    /\ \A L \in {0, 1} :
          /\ \E e \in Elems : e < last.element /\ isElementOnLevel(Mem, 1, e, L)
          /\ \E e \in Elems : e > last.element /\ isElementOnLevel(Mem, 1, e, L)

\* ---------------------------------------------------------------- C9
\* C9: after copy construction or copy assignment from s, the copy and s
\* agree on size(), levelCount(), elementsOnLevel(L), isElementOnLevel(e, L)
\* and contains(e), for every e and L.
C9_CopyAgreesWithSource ==
    (last.op \in {"copyConstruct", "copyAssign"} /\ last.out = "ok")
    => Obs(Mem, last.dst) = Obs(Mem, last.src)

\* A set of two elements on three levels has been copy-assigned to the other
\* set.
C9_Witness ==
    /\ last.op = "copyAssign" /\ last.out = "ok" /\ last.dst # last.src
    /\ size(Mem, last.src) = 2
    /\ levelCount(Mem, last.src) = 3
    /\ Obs(Mem, last.dst) = Obs(Mem, last.src)

\* ---------------------------------------------------------------- C10
\* C10: after copying s into c, an add on either leaves the other's size(),
\* levelCount(), elementsOnLevel(L) and contains(e) unchanged: no node or
\* level of one grid is reachable from the other.
C10_CopiesAreIndependent ==
    [][(last'.op = "add")
       => \A s \in Sets \ {last'.dst} :
             /\ Obs(Mem', s) = Obs(Mem, s)
             /\ Grid(Mem', s) = Grid(Mem, s)
             /\ ReachNodes(Mem', s) \cap ReachNodes(Mem', last'.dst) = {}
             /\ ReachLevels(Mem', s) \cap ReachLevels(Mem', last'.dst) = {}]_vars

\* Both sets hold the element they had when one was copied from the other,
\* on two levels, and the last add put an element into one of them only.
C10_Witness ==
    /\ last.op = "add" /\ last.out = "ok"
    /\ \A s \in Sets : live[s] /\ ~Faults(Mem, s)
    /\ \E e \in Elems \ {last.element} :
          \A s \in Sets : isElementOnLevel(Mem, s, e, 1)
    /\ contains(Mem, last.dst, last.element)
    /\ \A s \in Sets \ {last.dst} : ~contains(Mem, s, last.element)

\* ---------------------------------------------------------------- C11
\* C11: when an allocation fails during copy construction or copy
\* assignment, the error propagates, the source is unchanged, every level
\* and node built for the clone is freed, and for copy assignment the
\* destination is exactly what it was.
C11_FailedCopyTearsDownClone ==
    [][(last'.op \in {"copyConstruct", "copyAssign"} /\ last'.f # 0)
       => (/\ last'.out = "throw"
           /\ Grid(Mem', last'.src) = Grid(Mem, last'.src)
           /\ nodes' = nodes
           /\ lnodes' = lnodes
           /\ last'.op = "copyAssign"
                 => Grid(Mem', last'.dst) = Grid(Mem, last'.dst))]_vars

NormalOnLevel(M, s, L) ==
    {a \in UNION {Range(ChainFrom(M.nodes, M.lnodes[l].next)) :
                    l \in {k \in ReachLevels(M, s) : M.lnodes[k].value = L}} :
        M.nodes[a].value.kind = "Normal"}

\* C13: in every reachable state, elementsOnLevel(L) is the number of
\* non-sentinel nodes on level L when L < levelCount() and 0 otherwise, and
\* isElementOnLevel(e, L) is true exactly when L < levelCount() and a Normal
\* node with key e is on level L.
C13_LevelAccessorsCountNormalNodes ==
    \A s \in Sets :
        (live[s] /\ ~Faults(Mem, s)) =>
            \A L \in Levels :
                /\ elementsOnLevel(Mem, s, L) =
                       IF L < levelCount(Mem, s)
                       THEN Cardinality(NormalOnLevel(Mem, s, L))
                       ELSE 0
                /\ \A e \in Elems :
                       isElementOnLevel(Mem, s, e, L) =
                           (/\ L < levelCount(Mem, s)
                            /\ \E a \in NormalOnLevel(Mem, s, L) :
                                   Mem.nodes[a].value.element = e)

\* ---------------------------------------------------------------- C14
\* C14: size() is 0 for a newly constructed set and after every add it is
\* the number of distinct elements added so far; adding e to an empty set
\* gives size() == 1 and contains(e) == true.
C14_SizeCountsDistinctAdds ==
    /\ \A s \in Sets : live[s] => size(Mem, s) = Cardinality(added[s])
    /\ last.op = "construct" => size(Mem, last.dst) = 0
    /\ (last.op = "add" /\ last.out = "ok" /\ added[last.dst] = {last.element})
           => (/\ size(Mem, last.dst) = 1
               /\ contains(Mem, last.dst, last.element))

\* The first add to a new set has returned, its element promoted twice.
C14_Witness ==
    /\ last.op = "add" /\ last.out = "ok" /\ last.answers = MaxPromote
    /\ added[last.dst] = {last.element}
    /\ size(Mem, last.dst) = 1
    /\ contains(Mem, last.dst, last.element)

\* ---------------------------------------------------------------- C15
\* C15: with a level tester that always answers false, after any sequence
\* of adds of distinct elements levelCount() == 1 and elementsOnLevel(0) is
\* the number of elements added; after adding 5, 1, 3, 8, 2: levelCount()
\* is 1, elementsOnLevel(0) is 5, contains(3) is true, contains(9) is false.
C15_NeverPromotingKeepsOneLevel ==
    \A s \in Sets :
        live[s] =>
            /\ levelCount(Mem, s) = 1
            /\ elementsOnLevel(Mem, s, 0) = Cardinality(added[s])
            /\ added[s] = {5, 1, 3, 8, 2}
                   => (/\ elementsOnLevel(Mem, s, 0) = 5
                       /\ contains(Mem, s, 3)
                       /\ ~contains(Mem, s, 9))

\* 5, 1, 3, 8 have been added in this order, and now 2.
C15_Witness ==
    /\ last.op = "add" /\ last.out = "ok" /\ last.element = 2
    /\ added[1] = {5, 1, 3, 8, 2}
    /\ head[1] = 1
    /\ ChainFrom(nodes, lnodes[1].next) = <<1, 4, 7, 5, 3, 6, 2>>

\* ---------------------------------------------------------------- C16
\* C16: with a level tester that answers true once for each element and
\* then false, after adding n >= 1 distinct elements in any order
\* levelCount() == 2 and every added element is on level 0 and on level 1.
C16_PromotingOnceFillsTwoLevels ==
    \A s \in Sets :
        (live[s] /\ added[s] # {}) =>
            /\ levelCount(Mem, s) = 2
            /\ \A e \in added[s] :
                   /\ isElementOnLevel(Mem, s, e, 0)
                   /\ isElementOnLevel(Mem, s, e, 1)

\* 5, 1, 3 have been added: all three are on level 1.
C16_Witness ==
    /\ last.op = "add" /\ last.out = "ok" /\ last.consulted = 2
    /\ added[1] = {5, 1, 3}
    /\ elementsOnLevel(Mem, 1, 1) = 3
    /\ elementsOnLevel(Mem, 1, 2) = 0

\* ---------------------------------------------------------------- C17
\* The numbers of the levels of set s, from the top down.
LevelNumbers(M, s) ==
    LET q == LevelsFrom(M.lnodes, M.head[s])
    IN  [i \in 1..Len(q) |-> M.lnodes[q[i]].value]

C18_KeyOrderIsStrictTotal ==
    last.op = "compare" =>
        LET a == last.a
            b == last.b
            c == last.c
            lt(x, y) == last.less[x][y]
            eq(x, y) == last.eq[x][y]
        IN  /\ Cardinality({r \in {"lt", "eq", "gt"} :
                               \/ r = "lt" /\ lt(a, b)
                               \/ r = "eq" /\ eq(a, b)
                               \/ r = "gt" /\ lt(b, a)}) = 1
            /\ (lt(a, b) /\ lt(b, c)) => lt(a, c)
            /\ (a.kind = "NegInf" /\ b.kind # "NegInf") => lt(a, b)
            /\ (a.kind = "Normal" /\ b.kind = "PosInf") => lt(a, b)
            /\ (a.kind = "Normal" /\ b.kind = "Normal")
                   => /\ lt(a, b) = (a.element < b.element)
                      /\ eq(a, b) = (a.element = b.element)
            /\ (a.kind = b.kind /\ a.kind # "Normal") => eq(a, b)

\* Three keys in ascending order have been compared, the payloads of the
\* sentinels in descending order.
C18_Witness ==
    /\ last.op = "compare"
    /\ last.a = SkipListKey("NegInf", 3)
    /\ last.b = SkipListKey("Normal", 2)
    /\ last.c = SkipListKey("PosInf", 0)
    /\ last.less[last.a][last.b] /\ last.less[last.b][last.c]
    /\ last.less[last.a][last.c]

\* ---------------------------------------------------------------- C19
\* The pairs of a sequence of pairs that do not mention vertex v, in order.
RECURSIVE Without(_, _)
Without(es, v) ==
    IF es = <<>> THEN <<>>
    ELSE IF Head(es)[1] = v \/ Head(es)[2] = v THEN Without(Tail(es), v)
    ELSE <<Head(es)>> \o Without(Tail(es), v)

\* C19: removeVertex(v) for an existing v removes v and every edge from or
\* to v: afterwards vertices() does not contain v, edges() has no pair that
\* mentions v, and all other vertices and edges are what they were; for a
\* v that does not exist it throws DigraphException and the graph is
\* unchanged.
C19_RemoveVertexRemovesItsEdges ==
    [][(last'.op = "removeVertex")
       => LET v == last'.fromVertex
          IN  IF v \in DOMAIN map
              THEN /\ last'.out = "ok"
                   /\ v \notin Range(vertices(map'))
                   /\ \A e \in Range(edges(map')) : e[1] # v /\ e[2] # v
                   /\ Range(vertices(map')) = Range(vertices(map)) \ {v}
                   /\ edges(map') = Without(edges(map), v)
                   /\ \A w \in DOMAIN map' : map'[w].vinfo = map[w].vinfo
              ELSE /\ last'.out = "DigraphException"
                   /\ map' = map]_vars

\* ---------------------------------------------------------------- C20
\* There is a directed path of edges from u to w in graph m.
RECURSIVE ReachableFrom(_, _)
ReachableFrom(m, S) ==
    LET T == S \cup {e[2] : e \in {x \in Range(edges(m)) : x[1] \in S}}
    IN  IF T = S THEN S ELSE ReachableFrom(m, T)

Path(m, u, w) == w \in ReachableFrom(m, {u})

\* C20: isStronglyConnected() returns true if and only if for every ordered
\* pair of vertices (u, w) there is a directed path of edges from u to w.
C20_StronglyConnectedIffAllPaths ==
    (last.op = "isStronglyConnected")
    => (/\ last.out = "ok"
        /\ last.ret = (\A u \in DOMAIN map, w \in DOMAIN map : Path(map, u, w)))

\* ---------------------------------------------------------------- C21
\* C21: edgeCount(v) returns the number of edges outgoing from v when v
\* exists; when v does not exist it fails with a DigraphException, as
\* edges(v) and vertexInfo(v) do; the graph is unchanged.
C21_EdgeCountOfMissingVertexThrows ==
    [][(last'.op = "edgeCount")
       => LET v == last'.fromVertex
          IN  /\ map' = map
              /\ last'.out = edgesEnds(map, v)
              /\ last'.out = vertexInfoEnds(map, v)
              /\ IF v \in DOMAIN map
                 THEN /\ last'.out = "ok"
                      /\ last'.ret =
                            Cardinality({e \in Range(edges(map)) : e[1] = v})
                 ELSE last'.out = "DigraphException"]_vars

\* ---------------------------------------------------------------- C22
\* The least total weight of a path from start to each vertex of m that a
\* path leads to: the distances are lowered along edges until none changes.
RECURSIVE Distances(_, _)
Distances(m, d) ==
    LET better == {<<w, x>> \in (DOMAIN m) \X (0..(MaxVertex * Unreached)) :
                     \E u \in DOMAIN d :
                        \E i \in 1..Len(m[u].edges) :
                           /\ m[u].edges[i].toVertex = w
                           /\ x = d[u] + m[u].edges[i].einfo
                           /\ (w \in DOMAIN d => x < d[w])}
    IN  IF better = {} THEN d
        ELSE LET b == CHOOSE b \in better : TRUE
             IN  Distances(m, (b[1] :> b[2]) @@ d)

\* C22: findShortestPaths(start, weight) with non-negative integer weights
\* returns a map in which every vertex reachable from start is mapped to its
\* predecessor on a path of least total weight from start, and start and
\* every unreachable vertex are mapped to themselves.
C22_ShortestPathPredecessors ==
    (last.op = "findShortestPaths" /\ last.fromVertex \in DOMAIN map)
    => LET start == last.fromVertex
           d == Distances(map, (start :> 0))
       IN  /\ last.out = "ok"
           /\ DOMAIN last.ret = DOMAIN map
           /\ last.ret[start] = start
           /\ \A w \in (DOMAIN map) \ DOMAIN d : last.ret[w] = w
           /\ \A w \in (DOMAIN d) \ {start} :
                 \E i \in 1..Len(map[last.ret[w]].edges) :
                    /\ last.ret[w] \in DOMAIN d
                    /\ map[last.ret[w]].edges[i].toVertex = w
                    /\ d[last.ret[w]] + map[last.ret[w]].edges[i].einfo = d[w]

\* ---------------------------------------------------------------- C23
\* The Nodes of the list l in heap, from its head along next.
NodesOf(heap, l) == DChain(heap, l.head, <<>>).nodes

\* The values of the list l in heap, in order.
ValuesOf(heap, l) ==
    [i \in 1..Len(NodesOf(heap, l)) |-> heap[NodesOf(heap, l)[i]].value]

\* l is a doubly linked list: the walk from head ends, at tail, and each prev
\* is the Node before.
Sound(heap, l) ==
    LET c == DChain(heap, l.head, <<>>)
    IN  /\ c.ends
        /\ l.tail = IF c.nodes = <<>> THEN NULL ELSE c.nodes[Len(c.nodes)]
        /\ \A i \in 1..Len(c.nodes) :
              heap[c.nodes[i]].prev = IF i = 1 THEN NULL ELSE c.nodes[i - 1]

Dropped(q, i) == SubSeq(q, 1, i - 1) \o SubSeq(q, i + 1, Len(q))

\* C23: remove(moveToNextAfterward) on an iterator that refers to a value of
\* the list removes exactly that value, the others keeping their order, and
\* the iterator then refers to the value that followed it when
\* moveToNextAfterward is true (past end if it was the last) and to the value
\* that preceded it when false (past start if it was the first).
C23_RemoveMovesToNeighbour ==
    [][(/\ last'.op = "remove"
        /\ ~it.pastStart /\ ~it.pastEnd
        /\ Sound(dnodes, dll)
        /\ it.current \in Range(NodesOf(dnodes, dll)))
       => LET s == NodesOf(dnodes, dll)
              i == CHOOSE i \in 1..Len(s) : s[i] = it.current
          IN  /\ last'.out = "ok"
              /\ Sound(dnodes', dll')
              /\ NodesOf(dnodes', dll') = Dropped(s, i)
              /\ ValuesOf(dnodes', dll') = Dropped(ValuesOf(dnodes, dll), i)
              /\ IF last'.flag
                 THEN IF i = Len(s) THEN it'.pastEnd
                      ELSE /\ ~it'.pastStart /\ ~it'.pastEnd
                           /\ it'.current = s[i + 1]
                 ELSE IF i = 1 THEN it'.pastStart
                      ELSE /\ ~it'.pastStart /\ ~it'.pastEnd
                           /\ it'.current = s[i - 1]]_vars

\* ---------------------------------------------------------------- C24
\* C24: on a list that is not empty, a moveToNext that follows the
\* moveToPrevious that put the iterator past start makes the iterator refer
\* to the first Node of the list itself (so that a write through value() is
\* seen by first() and remove() removes from the list), and a moveToPrevious
\* that follows the moveToNext that put it past end makes it refer to the
\* last Node of the list itself.
C24_IteratorComesBackToTheList ==
    [][(/\ last.out = "ok" /\ dll.head # NULL /\ Sound(dnodes, dll))
       => /\ (last.op = "moveToPrevious" /\ it.pastStart
              /\ last'.op = "moveToNext")
             => /\ last'.out = "ok"
                /\ ~it'.pastStart /\ ~it'.pastEnd
                /\ it'.current = dll'.head
          /\ (last.op = "moveToNext" /\ it.pastEnd
              /\ last'.op = "moveToPrevious")
             => /\ last'.out = "ok"
                /\ ~it'.pastStart /\ ~it'.pastEnd
                /\ it'.current = dll'.tail]_vars

\* ---------------------------------------------------------------- C25
\* The call op is one of the error cases of the iterator.
IteratorError(op) ==
    \/ op = "moveToNext" /\ it.pastEnd
    \/ op = "moveToPrevious" /\ it.pastStart
    \/ op \in {"value", "valueAssign", "remove"} /\ (it.pastStart \/ it.pastEnd)
    \/ op = "insertBefore" /\ it.pastStart
    \/ op = "insertAfter" /\ it.pastEnd

\* The call op is one of the error cases of the list.
EmptyError(op) ==
    /\ op \in {"removeFromStart", "removeFromEnd", "first", "last"}
    /\ dll.head = NULL /\ dll.tail = NULL

\* C25: moveToNext past end, moveToPrevious past start, value() and remove()
\* past start or past end, insertBefore past start and insertAfter past end
\* throw IteratorException, and removeFromStart, removeFromEnd, first and last
\* on an empty list throw EmptyException; in each case the values of the list
\* and the position of the iterator are what they were before the call: the
\* head and tail members, every Node there was and the members of the
\* iterator are unchanged and, where the list is a doubly linked list, so is
\* the sequence of its values.
C25_ErrorCasesThrowAndChangeNothing ==
    [][(IteratorError(last'.op) \/ EmptyError(last'.op))
       => /\ last'.out = IF IteratorError(last'.op) THEN "IteratorException"
                         ELSE "EmptyException"
          /\ dll' = dll
          /\ it' = it
          /\ \A a \in DOMAIN dnodes : dnodes'[a] = dnodes[a]
          /\ Sound(dnodes, dll)
             => /\ NodesOf(dnodes', dll') = NodesOf(dnodes, dll)
                /\ ValuesOf(dnodes', dll') = ValuesOf(dnodes, dll)]_vars

\* moveToNext has thrown on an iterator that walked past the end of a list
\* that is not empty.
C25_Witness ==
    /\ last.op = "moveToNext"
    /\ last.out = "IteratorException"
    /\ dll.head # NULL

\* ---------------------------------------------------------------- C26
\* C26: add of an element that is not in the set resizes (the capacity
\* doubles and every element is at the index of its hash in the new capacity)
\* exactly when the ratio of the size, the new element counted, to the
\* capacity exceeds 0.8; add of an element that is in the set never resizes.
C26_ResizesWhenLoadExceeds ==
    [][(last'.op = "add")
       => IF hashContains(hashset, last'.element)
          THEN hashset'.capacity = hashset.capacity
          ELSE /\ hashset'.capacity =
                     IF 10 * (hashset.stored + 1) > 8 * hashset.capacity
                     THEN 2 * hashset.capacity ELSE hashset.capacity
               /\ \A i \in 0..(hashset'.capacity - 1) :
                     \A e \in Range(hashset'.set[i]) :
                        isElementAtIndex(hashset', e, i)]_vars

\* ---------------------------------------------------------------- C27
\* C27: after any adds, resizes among them, and with any of the hash
\* functions, contains is true of exactly the elements added and size is the
\* number of distinct elements added; adding an element again changes neither.
C27_ContainsExactlyTheAdded ==
    /\ [](hashset # NoHashSet
          => /\ \A e \in HashElems : hashContains(hashset, e) <=> e \in hadded
             /\ hashSize(hashset) = Cardinality(hadded))
    /\ [][(last'.op = "add" /\ last'.element \in hadded)
          => /\ hashSize(hashset') = hashSize(hashset)
             /\ \A e \in HashElems :
                   hashContains(hashset', e) <=> hashContains(hashset, e)]_vars

\* The set has been resized with the hash function that changes the index of
\* elements, and contains has found an element that the resizing moved to an
\* index the smaller array did not have.
C27_Witness ==
    /\ hashset.hashFunction = "tripled"
    /\ hashset.capacity = 2 * DEFAULT_CAPACITY
    /\ last.op = "contains"
    /\ last.ret = 1
    /\ hashFunction("tripled", last.element) % hashset.capacity
          >= DEFAULT_CAPACITY

\* ---------------------------------------------------------------- C28
\* The Nodes of level `level` of set s, left to right.
NodesOnLevel(M, s, level) ==
    ChainFrom(M.nodes, M.lnodes[getLevel(M, s, level)].next)

\* C28: on a grid built by add, for an element that is on no level from
\* minLevel up (0 <= minLevel <= the number of the top level),
\* search(element, minLevel) returns a Node of level minLevel whose key is
\* less than the element and whose right neighbour's key is greater.
C28_SearchStopsOnMinLevel ==
    \A s \in Sets :
        (live[s] /\ status = "run") =>
            \A e \in Elems, minLevel \in 0..lnodes[head[s]].value :
                (\A L \in minLevel..lnodes[head[s]].value :
                    ~isElementOnLevel(Mem, s, e, L))
                => LET n == search(Mem, s, e, minLevel)
                   IN  /\ n # NULL
                       /\ n \in Range(NodesOnLevel(Mem, s, minLevel))
                       /\ KeyLess(nodes[n].value, SkipListKey("Normal", e))
                       /\ nodes[n].next # NULL
                       /\ KeyLess(SkipListKey("Normal", e),
                                  nodes[nodes[n].next].value)

\* An element is in the set, on level 0 only, under two levels that hold
\* another element: a search for it on level 1 has ended on level 1.
C28_Witness ==
    /\ last.op = "add" /\ last.out = "ok"
    /\ levelCount(Mem, 1) = 3
    /\ \E e \in added[1] :
          /\ ~isElementOnLevel(Mem, 1, e, 1)
          /\ search(Mem, 1, e, 1) \in Range(NodesOnLevel(Mem, 1, 1))
          /\ nodes[search(Mem, 1, e, 1)].value.kind = "Normal"

\* ---------------------------------------------------------------- C29
\* C29: search tells its two outcomes apart: for an element of the set the
\* result is the Node that holds it, and for any other element the result is
\* a Node before the place of the element; no result stands for both.
C29_SearchOutcomesAreDistinct ==
    \A s \in Sets :
        (live[s] /\ status = "run") =>
            \A e \in Elems :
                LET n == search(Mem, s, e, 0)
                IN  /\ n # NULL
                    /\ IF e \in added[s]
                       THEN KeyEq(nodes[n].value, SkipListKey("Normal", e))
                       ELSE KeyLess(nodes[n].value, SkipListKey("Normal", e))

\* ---------------------------------------------------------------- C30
\* C30: in add(e) of an element that is not in the set, the level tester
\* answering true k times and then false, the level tester is asked exactly
\* k + 1 times, and afterwards e is on the levels 0..k and on no other.
C30_PromotionStopsAtFirstFalse ==
    [][\A s \in Sets :
         (/\ last'.op = "add" /\ last'.dst = s
          /\ ~contains(Mem, s, last'.element))
         => /\ last'.out = "ok"
            /\ last'.consulted = last'.answers + 1
            /\ \A L \in Levels :
                  isElementOnLevel(Mem', s, last'.element, L)
                      <=> L <= last'.answers]_vars

\* The level tester answered true twice and then false, for an element added
\* to a set that held another on level 0 only.
C30_Witness ==
    /\ last.op = "add" /\ last.out = "ok"
    /\ last.answers = 2 /\ last.consulted = 3
    /\ Cardinality(added[1]) = 2
    /\ elementsOnLevel(Mem, 1, 0) = 2
    /\ elementsOnLevel(Mem, 1, 1) = 1
    /\ elementsOnLevel(Mem, 1, 2) = 1

\* ---------------------------------------------------------------- C31
\* C31: in add(e) of an element that is not in the set, the level tester
\* answering true more often than the number of the top level, one level is
\* created for each true answer above the top: levelCount() grows by exactly
\* that many, each new level holds NegInf, e, PosInf in that order, its
\* sentinels link below to the sentinels of the level under it, and every
\* level that existed keeps its nodes, their keys, their links below and
\* their order, e apart.
C31_OneNewTopLevelPerTrueAnswer ==
    [][\A s \in Sets :
         (/\ last'.op = "add" /\ last'.dst = s
          /\ ~contains(Mem, s, last'.element)
          /\ last'.answers > lnodes[head[s]].value)
         => /\ last'.out = "ok"
            /\ levelCount(Mem', s)
                  = levelCount(Mem, s) + (last'.answers - lnodes[head[s]].value)
            /\ \A L \in (lnodes[head[s]].value + 1)..last'.answers :
                  LET ch == NodesOnLevel(Mem', s, L)
                      lo == NodesOnLevel(Mem', s, L - 1)
                  IN  /\ Len(ch) = 3
                      /\ nodes'[ch[1]].value.kind = "NegInf"
                      /\ nodes'[ch[2]].value
                            = SkipListKey("Normal", last'.element)
                      /\ nodes'[ch[3]].value.kind = "PosInf"
                      /\ nodes'[ch[1]].below = lo[1]
                      /\ nodes'[ch[3]].below = lo[Len(lo)]
            /\ \A L \in 0..lnodes[head[s]].value :
                  /\ SelectSeq(NodesOnLevel(Mem', s, L),
                               LAMBDA a : a \in DOMAIN nodes)
                        = NodesOnLevel(Mem, s, L)
                  /\ \A a \in Range(NodesOnLevel(Mem, s, L)) :
                        /\ nodes'[a].value = nodes[a].value
                        /\ nodes'[a].below = nodes[a].below]_vars

\* The level tester answered true twice for an element added to a set whose
\* top level was level 1: level 2 is new and holds that element only.
C31_Witness ==
    /\ last.op = "add" /\ last.out = "ok" /\ last.answers = 2
    /\ levelCount(Mem, 1) = 3
    /\ elementsOnLevel(Mem, 1, 1) = 2
    /\ elementsOnLevel(Mem, 1, 2) = 1
    /\ isElementOnLevel(Mem, 1, last.element, 2)

\* ---------------------------------------------------------------- C32
\* C32: in every state built by add, copy construction and copy assignment
\* (moves between sets included), each node of a level L > 0, sentinels
\* included, has a link below to a node of the same set on level L - 1 that
\* holds an equal key, and each node of level 0 has no link below.
C32_BelowLinksJoinEqualKeys ==
    \A s \in Sets :
        (live[s] /\ status = "run" /\ head[s] # NULL) =>
            \A l \in ReachLevels(Mem, s) :
                LET ch == ChainFrom(nodes, lnodes[l].next)
                IN  IF lnodes[l].value = 0
                    THEN /\ lnodes[l].below = NULL
                         /\ \A i \in 1..Len(ch) : nodes[ch[i]].below = NULL
                    ELSE /\ lnodes[l].below # NULL
                         /\ lnodes[lnodes[l].below].value = lnodes[l].value - 1
                         /\ \A i \in 1..Len(ch) :
                               /\ nodes[ch[i]].below \in
                                     Range(ChainFrom(nodes,
                                         lnodes[lnodes[l].below].next))
                               /\ KeyEq(nodes[nodes[ch[i]].below].value,
                                        nodes[ch[i]].value)

\* A set of three levels was copied, and an element was then promoted into
\* the two upper levels of the copy, between the nodes the copy had made.
C32_Witness ==
    /\ last.op = "add" /\ last.out = "ok" /\ last.answers = 2
    /\ last.dst = 2
    /\ levelCount(Mem, 2) = 3
    /\ elementsOnLevel(Mem, 2, 2) = 2
    /\ elementsOnLevel(Mem, 1, 2) = 1
    /\ added[2] = added[1] \cup {last.element}

\* ---------------------------------------------------------------- C33
\* ---- the loop of search(), step by step: the Nodes that p refers to, one
\* for each pass of the loop, at most `fuel` passes being made.  ended says
\* that the loop returned within them.
RECURSIVE searchPath(_, _, _, _, _, _)
searchPath(N, p, level, newKey, minLevel, fuel) ==
    IF p = NULL THEN [path |-> <<>>, ended |-> TRUE]
    ELSE IF fuel = 0 THEN [path |-> <<>>, ended |-> FALSE]
    ELSE IF KeyEq(N[p].value, newKey) THEN [path |-> <<p>>, ended |-> TRUE]
    ELSE IF N[p].next # NULL /\ KeyLess(newKey, N[N[p].next].value)
         THEN IF level - 1 < minLevel
              THEN [path |-> <<p>>, ended |-> TRUE]
              ELSE Let(searchPath(N, N[p].below, level - 1, newKey, minLevel,
                                  fuel - 1),
                       LAMBDA r : [path |-> <<p>> \o r.path, ended |-> r.ended])
    ELSE Let(searchPath(N, N[p].next, level, newKey, minLevel, fuel - 1),
             LAMBDA r : [path |-> <<p>> \o r.path, ended |-> r.ended])

\* Every search on the grid of set s returns within as many passes as the
\* grid has Nodes, each pass moving right or down to a Node not yet visited.
SearchesEnd(M, s) ==
    \A e \in Elems, minLevel \in 0..M.lnodes[M.head[s]].value :
        LET r == searchPath(M.nodes, M.lnodes[M.head[s]].next,
                            M.lnodes[M.head[s]].value,
                            SkipListKey("Normal", e), minLevel,
                            Cardinality(ReachNodes(M, s)))
        IN  /\ r.ended
            /\ \A i \in 1..(Len(r.path) - 1) :
                  \/ r.path[i + 1] = M.nodes[r.path[i]].next
                  \/ r.path[i + 1] = M.nodes[r.path[i]].below
            /\ \A i, j \in 1..Len(r.path) : r.path[i] = r.path[j] => i = j

\* C33: every add call returns, the level tester having been asked finitely
\* often (once more than it answered true), and on every grid that add calls
\* reach each search returns after finitely many passes of its loop, moving
\* only right or down.
C33_AddAndItsSearchesReturn ==
    /\ [](\A s \in Sets :
            (live[s] /\ status = "run") => SearchesEnd(Mem, s))
    /\ [][\A s \in Sets :
            (last'.op = "add" /\ last'.dst = s)
            => /\ last'.out = "ok"
               /\ last'.consulted = last'.answers + 1
               /\ SearchesEnd(Mem', s)]_vars

\* The same for the add of an element that is not in the set.
C33_AddOfNewElementReturns ==
    /\ [](\A s \in Sets :
            (live[s] /\ status = "run") => SearchesEnd(Mem, s))
    /\ [][\A s \in Sets :
            (/\ last'.op = "add" /\ last'.dst = s
             /\ ~contains(Mem, s, last'.element))
            => /\ last'.out = "ok"
               /\ last'.consulted = last'.answers + 1
               /\ SearchesEnd(Mem', s)]_vars

\* ---------------------------------------------------------------- C34
\* No pointer that a destructor follows refers to an object that has been
\* freed: the head of a set, the below and next of an LNode, the next of a
\* Node.
HeapClosed(M) ==
    /\ \A s \in Sets : live[s] => M.head[s] \in DOMAIN M.lnodes \cup {NULL}
    /\ \A l \in DOMAIN M.lnodes :
          /\ M.lnodes[l].below \in DOMAIN M.lnodes \cup {NULL}
          /\ M.lnodes[l].next \in DOMAIN M.nodes \cup {NULL}
    /\ \A a \in DOMAIN M.nodes : M.nodes[a].next \in DOMAIN M.nodes \cup {NULL}

\* The LNodes that ~SkipListSet frees for set s, and the Nodes that it frees
\* for the level l.
OwnedLevels(M, s) == IF M.head[s] = NULL THEN {} ELSE ReachLevels(M, s)
OwnedNodes(M, l) == Range(ChainFrom(M.nodes, M.lnodes[l].next))

\* C34: after every call, one that fails on an allocation error included,
\* every LNode and Node (with its key) that is allocated is in exactly one
\* level chain of exactly one set, so that the destructors free each object
\* once: none is left over and none is freed twice.
C34_EveryObjectHasOneOwner ==
    /\ HeapClosed(Mem)
    /\ DOMAIN lnodes = UNION {OwnedLevels(Mem, s) : s \in {t \in Sets : live[t]}}
    /\ DOMAIN nodes = UNION {OwnedNodes(Mem, l) : l \in DOMAIN lnodes}
    /\ \A s, t \in Sets :
          (live[s] /\ live[t] /\ s # t)
          => OwnedLevels(Mem, s) \cap OwnedLevels(Mem, t) = {}
    /\ \A l, m \in DOMAIN lnodes :
          l # m => OwnedNodes(Mem, l) \cap OwnedNodes(Mem, m) = {}

\* ---------------------------------------------------------------- C35
\* C35: after the copy assignment a = b has returned, a contains exactly the
\* elements that b contained, so none of a's earlier elements that are not
\* in b; and after a = a the set's size(), levelCount() and the elements of
\* every level are what they were.
C35_CopyAssignReplacesContents ==
    [][(last'.op = "copyAssign" /\ last'.out = "ok")
       => /\ \A e \in Elems :
                contains(Mem', last'.dst, e) <=> contains(Mem, last'.src, e)
          /\ \A e \in Elems :
                contains(Mem', last'.src, e) <=> contains(Mem, last'.src, e)
          /\ (last'.dst = last'.src)
             => /\ size(Mem', last'.dst) = size(Mem, last'.dst)
                /\ levelCount(Mem', last'.dst) = levelCount(Mem, last'.dst)
                /\ \A L \in Levels :
                      /\ elementsOnLevel(Mem', last'.dst, L)
                            = elementsOnLevel(Mem, last'.dst, L)
                      /\ \A e \in Elems :
                            isElementOnLevel(Mem', last'.dst, e, L)
                                <=> isElementOnLevel(Mem, last'.dst, e, L)]_vars

\* A set of one element on one level has been assigned to a set that held
\* two elements on one level: the assignment built the copy and then freed
\* the one LNode and the four Nodes of the destination.
C35_Witness ==
    /\ last.op = "copyAssign" /\ last.out = "ok" /\ last.dst # last.src
    /\ size(Mem, last.src) = 1 /\ levelCount(Mem, last.src) = 1
    /\ size(Mem, last.dst) = 1 /\ levelCount(Mem, last.dst) = 1
    /\ Cardinality((1..head[last.dst]) \ DOMAIN lnodes) = 1
    /\ Cardinality((1..tail[last.dst]) \ DOMAIN nodes) = 4

\* A set of two elements on three levels has been assigned to itself.
C35_SelfAssigned ==
    /\ last.op = "copyAssign" /\ last.out = "ok" /\ last.dst = last.src
    /\ size(Mem, last.dst) = 2 /\ levelCount(Mem, last.dst) = 3

\* ---------------------------------------------------------------- C36
\* C36: add(e) of an element that is not in the set changes nothing about
\* the other elements: for every x # e and every level L,
\* isElementOnLevel(x, L) is after the call what it was before, and on each
\* level the nodes that were there are still there in the same order.
C36_AddLeavesOtherElementsAlone ==
    [][\A s \in Sets :
         (/\ last'.op = "add" /\ last'.dst = s
          /\ ~contains(Mem, s, last'.element))
         => /\ \A x \in Elems \ {last'.element}, L \in Levels :
                  isElementOnLevel(Mem', s, x, L)
                      <=> isElementOnLevel(Mem, s, x, L)
            /\ \A l \in ReachLevels(Mem, s) :
                  /\ l \in ReachLevels(Mem', s)
                  /\ lnodes'[l].value = lnodes[l].value
                  /\ SelectSeq(ChainFrom(nodes', lnodes'[l].next),
                               LAMBDA a : a \in DOMAIN nodes)
                        = ChainFrom(nodes, lnodes[l].next)
                  /\ \A a \in Range(ChainFrom(nodes, lnodes[l].next)) :
                        nodes'[a].value = nodes[a].value]_vars

\* An element was added between two others that are on levels 0 and 1, and
\* went on level 0 only.
C36_Witness ==
    /\ last.op = "add" /\ last.out = "ok" /\ last.answers = 0
    /\ size(Mem, 1) = 3
    /\ \E x, y \in Elems :
          /\ x < last.element /\ last.element < y
          /\ isElementOnLevel(Mem, 1, x, 1) /\ isElementOnLevel(Mem, 1, y, 1)
    /\ ~isElementOnLevel(Mem, 1, last.element, 1)

\* ---------------------------------------------------------------- C37
\* By how much a call that returns changes the number of values of the list.
SizeChange(op) ==
    CASE op \in {"addToStart", "addToEnd", "insertBefore", "insertAfter"} -> 1
      [] op \in {"removeFromStart", "removeFromEnd", "remove"} -> -1
      [] OTHER -> 0

\* C37: after any sequence of addToStart, addToEnd, removeFromStart and
\* removeFromEnd interleaved with the iterator's moves, insertBefore,
\* insertAfter and remove, the list is well formed: next leads from head
\* through finitely many nodes to tail, prev is the inverse of next, head has
\* no prev and tail no next, head is null iff tail is, and size() is the
\* number of values inserted less the number removed.
C37_ListStaysWellFormed ==
    /\ [](status = "run" => Sound(dnodes, dll))
    /\ [][(last'.out = "ok" /\ dnodes' # dnodes)
          => Len(NodesOf(dnodes', dll'))
                = Len(NodesOf(dnodes, dll)) + SizeChange(last'.op)]_vars

\* ---------------------------------------------------------------- C38
\* The sum of elementsAtIndex(i) over the indices below n.
RECURSIVE ElementsBelow(_, _)
ElementsBelow(H, n) ==
    IF n = 0 THEN 0 ELSE elementsAtIndex(H, n - 1) + ElementsBelow(H, n - 1)

\* C38: in every state reached by add, resizes among them, and by copying,
\* each stored element is in the list at index hashFunction(e) % capacity
\* and in no other place, so that the sum of elementsAtIndex(i) over all
\* indices is size(), elementsAtIndex(i) is 0 for i >= capacity, and
\* isElementAtIndex(e, i) is true only for the index of the list that holds e.
C38_ElementsSitAtTheirIndex ==
    hashset # NoHashSet =>
        /\ DOMAIN hashset.set = 0..(hashset.capacity - 1)
        /\ \A i \in DOMAIN hashset.set :
              \A k \in 1..Len(hashset.set[i]) :
                 hashFunction(hashset.hashFunction, hashset.set[i][k])
                     % hashset.capacity = i
        /\ \A e \in hadded :
              \E i \in DOMAIN hashset.set :
                 /\ Cardinality({k \in 1..Len(hashset.set[i]) :
                                    hashset.set[i][k] = e}) = 1
                 /\ \A j \in (DOMAIN hashset.set) \ {i} :
                       e \notin Range(hashset.set[j])
        /\ ElementsBelow(hashset, MaxIndex) = hashSize(hashset)
        /\ \A i \in hashset.capacity..MaxIndex :
              elementsAtIndex(hashset, i) = 0
        /\ \A e \in hadded, i \in 0..MaxIndex :
              isElementAtIndex(hashset, e, i) <=>
                  (i < hashset.capacity /\ e \in Range(hashset.set[i]))

\* The set has been resized with the hash function that puts many elements
\* at one index, and has then been copied: three elements are at one index.
C38_Witness ==
    /\ hashset.hashFunction = "thirds"
    /\ hashset.capacity = 2 * DEFAULT_CAPACITY
    /\ last.op = "copyAssign"
    /\ hashSize(hashset) = MaxHashElem
    /\ elementsAtIndex(hashset, 1) = 3
    /\ elementsAtIndex(hashset, 2 * DEFAULT_CAPACITY) = 0

=============================================================================
